---- MODULE Spec2Model ----
(***************************************************************************)
(* Time & attendance reconciliation engine of empcon-backend:              *)
(* ScheduleService (shift conflict detection), TimeClockService (clock-in, *)
(* clock-out, adjustment, grace period, payroll rounding) and              *)
(* PayrollCalculationService (per-employee aggregation).                   *)
(*                                                                         *)
(* A timestamp (a JavaScript Date, millisecond resolution) is an integer   *)
(* number of ticks since local midnight of day 0; a minute holds           *)
(* TicksPerMinute ticks, so instants that differ below the minute exist.   *)
(* The server's zone is taken to have a fixed offset (no DST jump inside   *)
(* the modelled days), so getHours/getMinutes are plain arithmetic.        *)
(* A duration inside a computation is a number of ticks; the hours columns *)
(* (totalHours, overtimeHours: DECIMAL(4,2)) and the hours of a payroll    *)
(* result hold hundredths of an hour.                                      *)
(***************************************************************************)
EXTENDS Integers, Sequences, FiniteSets, TLC

VARIABLES schedules, timeEntries, payPeriods, payslips, now, requests, response

vars == <<schedules, timeEntries, payPeriods, payslips, now, requests, response>>

-----------------------------------------------------------------------------
(* Bounds of the model *)

\* resolution below the minute: ticks per minute
TicksPerMinute == 2
\* schedule requests of the schedule specifications start and end on slot
\* boundaries 0..MaxSchedSlot (a slot is a third of a day)
MaxSchedSlot == 2
\* rows of the schedules table in the schedule specifications
MaxSchedules == 2
\* items of one bulk-create request
MaxBulk == 2
\* rows of the time_entries table in the time clock specifications
MaxEntries == 2
\* hours of the domain on which applyPayrollRounding is tabulated
MaxRoundHours == 25
\* largest grace window, in minutes, on which applyGracePeriod is tabulated
MaxGraceWindow == 6
\* largest monthsAhead of a generateUpcomingPeriods request
MaxMonthsAhead == 1
\* rows of the payslips table, removed rows included, in the payslip
\* specification
MaxPayslips == 2
\* rows of the payslips table, removed rows included, in the specification
\* of generatePayslips in steps
MaxGeneratedPayslips == 4

-----------------------------------------------------------------------------
(* Program constants *)

\* DEFAULT_TIMECLOCK_RULES.gracePeriodMinutes
gracePeriodMinutes == 5
\* DEFAULT_TIMECLOCK_RULES.clockInWindowMinutes
clockInWindowMinutes == 5
\* DEFAULT_TIMECLOCK_RULES.overtimeThresholdHours
overtimeThresholdHours == 8

MinuteTicks == TicksPerMinute
HourTicks == 60 * MinuteTicks
DayTicks == 24 * HourTicks

\* "HH:MM" on day d as a timestamp
At(d, h, m) == d * DayTicks + h * HourTicks + m * MinuteTicks

Max(a, b) == IF a >= b THEN a ELSE b
Min(a, b) == IF a <= b THEN a ELSE b
Abs(a) == IF a >= 0 THEN a ELSE -a

\* absent optional value (undefined / null) and absent id
None == -1
NoId == 0

SeqRange(s) == {s[i] : i \in 1..Len(s)}

-----------------------------------------------------------------------------
(* Date accessors and setters (local time, fixed offset) *)

getHours(t) == (t \div HourTicks) % 24
getMinutes(t) == (t \div MinuteTicks) % 60
\* seconds and milliseconds together: the part below the minute
getSubMinute(t) == t % MinuteTicks

\* Date.prototype.setHours(h): h = 24 rolls into the next day
setHours(t, h) == t + (h - getHours(t)) * HourTicks
setMinutes(t, m) == t + (m - getMinutes(t)) * MinuteTicks
\* setSeconds(0) followed by setMilliseconds(0)
clearSubMinute(t) == t - getSubMinute(t)

-----------------------------------------------------------------------------
(* TimeClockService.applyPayrollRounding *)

\* variant whose breakpoints lie before the quarter hours (15 rounds to 30,
\* ...), to probe idempotence
roundedMinutesShifted(originalMinutes) ==
    IF originalMinutes <= 7 THEN 0
    ELSE IF originalMinutes <= 14 THEN 15
    ELSE IF originalMinutes <= 29 THEN 30
    ELSE IF originalMinutes <= 44 THEN 45
    ELSE 60

\* variant with the breakpoints excluded (7 rounds up, ...), to probe the
\* rounding property
roundedMinutesExclusive(originalMinutes) ==
    IF originalMinutes < 7 THEN 0
    ELSE IF originalMinutes < 22 THEN 15
    ELSE IF originalMinutes < 37 THEN 30
    ELSE IF originalMinutes < 52 THEN 45
    ELSE 60

roundedMinutesOf(originalMinutes) ==
    IF originalMinutes <= 7 THEN 0
    ELSE IF originalMinutes <= 22 THEN 15
    ELSE IF originalMinutes <= 37 THEN 30
    ELSE IF originalMinutes <= 52 THEN 45
    ELSE 60

\* the roundedTime of the result
applyPayrollRounding(dateTime) ==
    LET originalMinutes == getMinutes(dateTime)
        roundedMinutes == roundedMinutesOf(originalMinutes)
        moved == IF roundedMinutes = 60
                 THEN setMinutes(setHours(dateTime, getHours(dateTime) + 1), 0)
                 ELSE setMinutes(dateTime, roundedMinutes)
    IN  clearSubMinute(moved)

-----------------------------------------------------------------------------
(* TimeClockService.applyGracePeriod *)

\* variant that snaps late punches only, to probe the symmetry of the window
applyGracePeriodLateOnly(actualTime, scheduledTime, windowMinutes) ==
    LET timeDiff == actualTime - scheduledTime
        withinGracePeriod == timeDiff >= 0 /\ timeDiff <= windowMinutes * MinuteTicks
    IN  [originalTime |-> actualTime,
         adjustedTime |-> IF withinGracePeriod THEN scheduledTime ELSE actualTime,
         gracePeriodApplied |-> withinGracePeriod]

\* applyGracePeriod with its third parameter given
applyGracePeriodWithin(actualTime, scheduledTime, windowMinutes) ==
    LET timeDiff == Abs(actualTime - scheduledTime)
        gracePeriod == windowMinutes * MinuteTicks
        withinGracePeriod == timeDiff <= gracePeriod
    IN  [originalTime |-> actualTime,
         adjustedTime |-> IF withinGracePeriod THEN scheduledTime ELSE actualTime,
         gracePeriodApplied |-> withinGracePeriod]

\* applyGracePeriod with the default window, as every caller uses it
applyGracePeriod(actualTime, scheduledTime) ==
    applyGracePeriodWithin(actualTime, scheduledTime, gracePeriodMinutes)

-----------------------------------------------------------------------------
(* Users table (prisma.user): the rows the operations read *)

Employees == {"e1", "e2"}
\* "a1" is an administrator; "u0" is no row of the table
UserIds == {"e1", "e2", "a1"}
roleOf(u) == IF u = "e1" THEN "EMPLOYEE" ELSE IF u = "e2" THEN "MANAGER" ELSE "ADMIN"

-----------------------------------------------------------------------------
(* ScheduleService.checkScheduleConflicts *)

\* the OR of the four cases of the findMany filter
overlapFilter(s, startDateTime, endDateTime) ==
    \/ (s.startTime <= startDateTime /\ s.endTime > startDateTime)
    \/ (s.startTime < endDateTime /\ s.endTime >= endDateTime)
    \/ (s.startTime >= startDateTime /\ s.endTime <= endDateTime)
    \/ (s.startTime <= startDateTime /\ s.endTime >= endDateTime)

conflictingSchedules(table, employeeId, startTime, endTime, excludeScheduleId) ==
    {s \in SeqRange(table) :
        /\ s.employeeId = employeeId
        /\ s.isActive
        /\ (excludeScheduleId # NoId => s.id # excludeScheduleId)
        /\ overlapFilter(s, startTime, endTime)}

checkScheduleConflicts(table, employeeId, startTime, endTime, excludeScheduleId) ==
    LET found == conflictingSchedules(table, employeeId, startTime, endTime,
                                      excludeScheduleId)
        conflicts ==
            {[id |-> s.id, startTime |-> s.startTime, endTime |-> s.endTime,
              overlapMinutes |->
                  Max(0, Min(endTime, s.endTime) - Max(startTime, s.startTime))
                      \div MinuteTicks] : s \in found}
    IN  [hasConflict |-> conflicts # {}, conflictingSchedules |-> conflicts]

-----------------------------------------------------------------------------
(* Rows of the schedules table: id, employeeId, startTime, endTime,         *)
(* isActive.  status, breakDuration, position, notes and createdBy are     *)
(* stored and returned but read by no operation: they are left out, and an *)
(* update of those fields alone is an update that supplies none of the     *)
(* modelled fields.  The table is a sequence: a row's id is its index      *)
(* (rows are never removed, deleteSchedule only clears isActive).          *)

\* unique index schedules_employee_id_start_time_end_time_key: would a row
\* (employeeId, startTime, endTime) collide with a row other than exceptId
uniqueViolation(table, employeeId, startTime, endTime, exceptId) ==
    \E s \in SeqRange(table) :
        /\ s.id # exceptId
        /\ s.employeeId = employeeId
        /\ s.startTime = startTime
        /\ s.endTime = endTime

\* ScheduleService.createSchedule: the table afterwards and the outcome
createSchedule(table, employeeId, startTime, endTime) ==
    LET conflictCheck == checkScheduleConflicts(table, employeeId, startTime,
                                                endTime, NoId)
    IN  IF conflictCheck.hasConflict
        THEN [table |-> table, ok |-> FALSE, error |-> "Schedule conflict detected"]
        ELSE IF employeeId \notin UserIds
        THEN [table |-> table, ok |-> FALSE, error |-> "Employee not found"]
        ELSE IF roleOf(employeeId) \notin {"EMPLOYEE", "MANAGER"}
        THEN [table |-> table, ok |-> FALSE,
              error |-> "Only EMPLOYEE and MANAGER roles can have schedules"]
        ELSE IF uniqueViolation(table, employeeId, startTime, endTime, NoId)
        THEN [table |-> table, ok |-> FALSE, error |-> "Unique constraint failed"]
        ELSE [table |-> Append(table,
                         [id |-> Len(table) + 1,
                          employeeId |-> employeeId,
                          startTime |-> startTime,
                          endTime |-> endTime,
                          isActive |-> TRUE]),
              ok |-> TRUE, error |-> ""]

\* ScheduleService.combineDateTime: date (a day number) and "HH:MM" (ticks
\* into the day)
combineDateTime(date, timeOfDay) == date * DayTicks + timeOfDay

\* ScheduleService.bulkCreateSchedules: the loop over the items, each one
\* created or its error recorded
RECURSIVE bulkCreate(_, _, _, _, _)
bulkCreate(table, date, items, created, errors) ==
    IF items = <<>>
    THEN [table |-> table, created |-> created, errors |-> errors]
    ELSE LET scheduleData == Head(items)
             startDateTime == combineDateTime(date, scheduleData.startTime)
             endOfDay == combineDateTime(date, scheduleData.endTime)
             \* next-day shifts (e.g. 23:00 to 07:00)
             endDateTime == IF endOfDay <= startDateTime
                            THEN endOfDay + DayTicks ELSE endOfDay
             r == createSchedule(table, scheduleData.employeeId,
                                 startDateTime, endDateTime)
         IN  IF r.ok
             THEN bulkCreate(r.table, date, Tail(items),
                             Append(created, Len(r.table)), errors)
             ELSE bulkCreate(table, date, Tail(items), created,
                             Append(errors, [employeeId |-> scheduleData.employeeId,
                                             error |-> r.error]))

\* an UpdateScheduleRequest is a record holding the fields that are supplied
has(data, field) == field \in DOMAIN data

\* ScheduleService.updateSchedule: the table afterwards and the outcome
updateSchedule(table, id, data) ==
    IF id \notin 1..Len(table)
    THEN [table |-> table, ok |-> FALSE, error |-> "Schedule not found"]
    ELSE
    LET existingSchedule == table[id]
        startTime == IF has(data, "startTime") THEN data.startTime
                     ELSE existingSchedule.startTime
        endTime == IF has(data, "endTime") THEN data.endTime
                   ELSE existingSchedule.endTime
        updated == [existingSchedule EXCEPT
                       !.startTime = startTime,
                       !.endTime = endTime,
                       !.isActive = IF has(data, "isActive") THEN data.isActive ELSE @]
        timeUpdated == has(data, "startTime") \/ has(data, "endTime")
        conflictCheck == checkScheduleConflicts(table, existingSchedule.employeeId,
                                                startTime, endTime, id)
    IN  IF timeUpdated /\ conflictCheck.hasConflict
        THEN [table |-> table, ok |-> FALSE, error |-> "Schedule conflict detected"]
        ELSE IF uniqueViolation(table, existingSchedule.employeeId, startTime,
                                endTime, id)
        THEN [table |-> table, ok |-> FALSE, error |-> "Unique constraint failed"]
        ELSE [table |-> [table EXCEPT ![id] = updated], ok |-> TRUE, error |-> ""]

\* ScheduleService.deleteSchedule (soft delete)
deleteSchedule(table, id) ==
    IF id \notin 1..Len(table)
    THEN [table |-> table, ok |-> FALSE, error |-> "Schedule not found"]
    ELSE [table |-> [table EXCEPT ![id].isActive = FALSE], ok |-> TRUE, error |-> ""]

-----------------------------------------------------------------------------
(* Schedule operations as actions: one request handled from start to end *)

NoRequests == [p \in {} |-> 0]
NoResponse == [op |-> "none"]

CreateSchedule(employeeId, startTime, endTime) ==
    \E r \in {createSchedule(schedules, employeeId, startTime, endTime)} :
        /\ Len(schedules) < MaxSchedules
        /\ schedules' = r.table
        /\ response' = [op |-> "createSchedule", ok |-> r.ok, error |-> r.error]
        /\ UNCHANGED <<timeEntries, payPeriods, now, requests, payslips>>

BulkCreateSchedules(date, items) ==
    \E r \in {bulkCreate(schedules, date, items, <<>>, <<>>)} :
        /\ Len(schedules) + Len(items) <= MaxSchedules
        /\ schedules' = r.table
        /\ response' = [op |-> "bulkCreateSchedules", created |-> r.created,
                        errors |-> r.errors]
        /\ UNCHANGED <<timeEntries, payPeriods, now, requests, payslips>>

UpdateSchedule(id, data) ==
    \E r \in {updateSchedule(schedules, id, data)} :
        /\ schedules' = r.table
        /\ response' = [op |-> "updateSchedule", ok |-> r.ok, error |-> r.error]
        /\ UNCHANGED <<timeEntries, payPeriods, now, requests, payslips>>

DeleteSchedule(id) ==
    \E r \in {deleteSchedule(schedules, id)} :
        /\ schedules' = r.table
        /\ response' = [op |-> "deleteSchedule", ok |-> r.ok, error |-> r.error]
        /\ UNCHANGED <<timeEntries, payPeriods, now, requests, payslips>>

CheckScheduleConflicts(employeeId, startTime, endTime, excludeScheduleId) ==
    /\ response' = [op |-> "checkScheduleConflicts",
                    employeeId |-> employeeId,
                    startTime |-> startTime,
                    endTime |-> endTime,
                    excludeScheduleId |-> excludeScheduleId,
                    result |-> checkScheduleConflicts(schedules, employeeId,
                                  startTime, endTime, excludeScheduleId)]
    /\ UNCHANGED <<schedules, timeEntries, payPeriods, now, requests, payslips>>

-----------------------------------------------------------------------------
(* Specification of the schedule operations, one request at a time *)

SlotTicks == DayTicks \div 3
SchedTimes == {k * SlotTicks : k \in 0..MaxSchedSlot}
\* times of day a bulk item names
DayTimes == {t \in SchedTimes : t < DayTicks}
\* employee ids a request names: two employees, an administrator, no user
RequestUserIds == {"e1", "e2", "a1", "u0"}
\* ids a request names: the rows of the table and one id of no row
ScheduleIds == 1..(Len(schedules) + 1)

BulkItems == [employeeId : Employees, startTime : DayTimes, endTime : DayTimes]
\* bulk requests of at most room items
BulkRequests(room) == UNION {[1..n -> BulkItems] : n \in 1..Min(MaxBulk, room)}

EmptyData == [f \in {} |-> 0]
Optional(field, values) == {EmptyData} \cup {(field :> v) : v \in values}
\* the update requests the specifications send: startTime and endTime in
\* any combination (none of them: an update of status or notes alone);
\* isActive alone; both times together with a re-activation
UpdateRequests ==
    {a @@ b : a \in Optional("startTime", SchedTimes),
              b \in Optional("endTime", SchedTimes)}
    \cup {("isActive" :> v) : v \in BOOLEAN}
    \cup {("startTime" :> s) @@ ("endTime" :> t) @@ ("isActive" :> TRUE) :
              s \in SchedTimes, t \in SchedTimes}

SchedInit ==
    /\ schedules = <<>>
    /\ timeEntries = <<>>
    /\ payPeriods = <<>>
    /\ payslips = <<>>
    /\ now = 0
    /\ requests = NoRequests
    /\ response = NoResponse

SchedNext ==
    \/ \E e \in RequestUserIds, s \in SchedTimes, t \in SchedTimes :
           CreateSchedule(e, s, t)
    \/ \E items \in BulkRequests(MaxSchedules - Len(schedules)) :
           BulkCreateSchedules(0, items)
    \/ \E id \in ScheduleIds, data \in UpdateRequests : UpdateSchedule(id, data)
    \/ \E id \in ScheduleIds : DeleteSchedule(id)

SpecSched == SchedInit /\ [][SchedNext]_vars

\* the conflict query, with any start and end, against the tables that
\* creating and deleting shifts with start before end builds
ConflictNext ==
    \/ \E e \in Employees, s \in SchedTimes, t \in SchedTimes :
           s < t /\ CreateSchedule(e, s, t)
    \/ \E id \in 1..MaxSchedules : DeleteSchedule(id)
    \/ \E e \in Employees, s \in SchedTimes, t \in SchedTimes,
          x \in {NoId} \cup (1..MaxSchedules) :
           CheckScheduleConflicts(e, s, t, x)

SpecConflict == SchedInit /\ [][ConflictNext]_vars

-----------------------------------------------------------------------------
(* Concurrent createSchedule requests.  createSchedule awaits three        *)
(* database calls in turn (the conflict query, the user lookup, the        *)
(* insert) with no transaction around them, so the calls of two requests   *)
(* interleave.  requests[p] is request p's position and local state.       *)

Procs == {1, 2}

IdleRequest == [pc |-> "idle"]

\* createSchedule up to its first await: the conflict query
CreateStart(p, employeeId, startTime, endTime) ==
    LET conflictCheck == checkScheduleConflicts(schedules, employeeId,
                                                startTime, endTime, NoId)
        req == [op |-> "createSchedule", employeeId |-> employeeId,
                startTime |-> startTime, endTime |-> endTime]
    IN  /\ requests[p].pc = "idle"
        /\ requests' = [requests EXCEPT ![p] =
               IF conflictCheck.hasConflict
               THEN req @@ [pc |-> "done", ok |-> FALSE,
                            error |-> "Schedule conflict detected"]
               ELSE req @@ [pc |-> "findEmployee"]]
        /\ UNCHANGED <<schedules, timeEntries, payPeriods, now, response, payslips>>

\* prisma.user.findUnique and the role test
CreateFindEmployee(p) ==
    LET req == requests[p]
    IN  /\ req.pc = "findEmployee"
        /\ requests' = [requests EXCEPT ![p] =
               IF req.employeeId \notin UserIds
               THEN [req EXCEPT !.pc = "done"]
                    @@ [ok |-> FALSE, error |-> "Employee not found"]
               ELSE IF roleOf(req.employeeId) \notin {"EMPLOYEE", "MANAGER"}
               THEN [req EXCEPT !.pc = "done"]
                    @@ [ok |-> FALSE,
                        error |-> "Only EMPLOYEE and MANAGER roles can have schedules"]
               ELSE [req EXCEPT !.pc = "insert"]]
        /\ UNCHANGED <<schedules, timeEntries, payPeriods, now, response, payslips>>

\* prisma.schedule.create: the insert, atomic with the unique index
CreateInsert(p) ==
    LET req == requests[p]
        collides == uniqueViolation(schedules, req.employeeId, req.startTime,
                                    req.endTime, NoId)
    IN  /\ req.pc = "insert"
        /\ schedules' =
               IF collides THEN schedules
               ELSE Append(schedules,
                        [id |-> Len(schedules) + 1,
                         employeeId |-> req.employeeId,
                         startTime |-> req.startTime,
                         endTime |-> req.endTime,
                         isActive |-> TRUE])
        /\ requests' = [requests EXCEPT ![p] =
               [req EXCEPT !.pc = "done"]
               @@ (IF collides
                   THEN [ok |-> FALSE, error |-> "Unique constraint failed"]
                   ELSE [ok |-> TRUE, error |-> "", id |-> Len(schedules) + 1])]
        /\ UNCHANGED <<timeEntries, payPeriods, now, response, payslips>>

SchedRaceInit ==
    /\ schedules = <<>>
    /\ timeEntries = <<>>
    /\ payPeriods = <<>>
    /\ payslips = <<>>
    /\ now = 0
    /\ requests = [p \in Procs |-> IdleRequest]
    /\ response = NoResponse

\* each of the two requests names any user and a shift with start before end
SchedRaceNext ==
    \/ \E p \in Procs, e \in RequestUserIds, s \in SchedTimes, t \in SchedTimes :
           s < t /\ CreateStart(p, e, s, t)
    \/ \E p \in Procs : CreateFindEmployee(p)
    \/ \E p \in Procs : CreateInsert(p)

SpecSchedRace == SchedRaceInit /\ [][SchedRaceNext]_vars

-----------------------------------------------------------------------------
(* Rows of the time_entries table: id, employeeId, scheduleId,             *)
(* clockInTime, clockOutTime, scheduledStartTime, scheduledEndTime,        *)
(* adjustedStartTime, adjustedEndTime, gracePeriodApplied, totalHours,     *)
(* overtimeHours, status; a null column holds None.  Locations and IPs are *)
(* stored and returned but read by no operation.  The table is a sequence: *)
(* a row's id is its index (no operation removes a row).                   *)
(* totalHours and overtimeHours are DECIMAL(4,2): hundredths of an hour.   *)

\* a duration as a JS number of hours, written to a DECIMAL(4,2) column:
\* rounded to hundredths of an hour (half up; durations are never negative)
toDecimalHours(duration) == (2 * 100 * duration + HourTicks) \div (2 * HourTicks)

\* variant without payroll rounding, to probe the hours property
finalHoursUnrounded(startTime, endTime) == Max(0, endTime - startTime)

\* variant counting every hour as overtime, to probe the hours split
overtimeWithoutThreshold(finalHours) == Max(0, finalHours)

\* clockOut / adjustTimeEntry: payroll rounding of both ends, the minutes
\* between them, never negative
finalHoursOf(startTime, endTime) ==
    LET roundedStart == applyPayrollRounding(startTime)
        roundedEnd == applyPayrollRounding(endTime)
        totalWorked == roundedEnd - roundedStart
    IN  Max(0, totalWorked)

\* clockOut / adjustTimeEntry: the hours above the overtime threshold
overtimeHoursOf(finalHours) ==
    Max(0, finalHours - overtimeThresholdHours * HourTicks)

\* the overtimeHours column: null when there is no overtime
overtimeColumn(overtimeHours) ==
    IF overtimeHours > 0 THEN toDecimalHours(overtimeHours) ELSE None

\* variant testing the employee before the shift's isActive, to probe the
\* order of the preconditions
validateClockInOperationEmployeeFirst(table, entries, employeeId, scheduleId, t) ==
    IF scheduleId \notin 1..Len(table)
    THEN [isValid |-> FALSE, error |-> "SCHEDULE_NOT_FOUND"]
    ELSE
    LET schedule == table[scheduleId]
        allowedClockInTime == schedule.startTime - clockInWindowMinutes * MinuteTicks
    IN  IF schedule.employeeId # employeeId
        THEN [isValid |-> FALSE, error |-> "Employee ID does not match schedule"]
        ELSE IF ~schedule.isActive
        THEN [isValid |-> FALSE, error |-> "Schedule is inactive"]
        ELSE IF t < allowedClockInTime
        THEN [isValid |-> FALSE, error |-> "TOO_EARLY"]
        ELSE IF \E te \in SeqRange(entries) :
                    /\ te.employeeId = employeeId
                    /\ te.scheduleId = scheduleId
                    /\ te.clockOutTime = None
        THEN [isValid |-> FALSE, error |-> "ALREADY_CLOCKED_IN"]
        ELSE [isValid |-> TRUE, error |-> "", schedule |-> schedule]

\* TimeClockService.validateClockInOperation at instant t
validateClockInOperation(table, entries, employeeId, scheduleId, t) ==
    IF scheduleId \notin 1..Len(table)
    THEN [isValid |-> FALSE, error |-> "SCHEDULE_NOT_FOUND"]
    ELSE
    LET schedule == table[scheduleId]
        allowedClockInTime == schedule.startTime - clockInWindowMinutes * MinuteTicks
    IN  IF ~schedule.isActive
        THEN [isValid |-> FALSE, error |-> "Schedule is inactive"]
        ELSE IF schedule.employeeId # employeeId
        THEN [isValid |-> FALSE, error |-> "Employee ID does not match schedule"]
        ELSE IF t < allowedClockInTime
        THEN [isValid |-> FALSE, error |-> "TOO_EARLY"]
        ELSE IF \E te \in SeqRange(entries) :
                    /\ te.employeeId = employeeId
                    /\ te.scheduleId = scheduleId
                    /\ te.clockOutTime = None
        THEN [isValid |-> FALSE, error |-> "ALREADY_CLOCKED_IN"]
        ELSE [isValid |-> TRUE, error |-> "", schedule |-> schedule]

\* the row prisma.timeEntry.create writes at clock-in
newTimeEntry(schedule, entries, employeeId, scheduleId, actualClockInTime) ==
    LET gracePeriodResult == applyGracePeriod(actualClockInTime, schedule.startTime)
    IN  [id |-> Len(entries) + 1,
         employeeId |-> employeeId,
         scheduleId |-> scheduleId,
         clockInTime |-> actualClockInTime,
         clockOutTime |-> None,
         scheduledStartTime |-> schedule.startTime,
         scheduledEndTime |-> schedule.endTime,
         adjustedStartTime |-> gracePeriodResult.adjustedTime,
         adjustedEndTime |-> None,
         gracePeriodApplied |-> gracePeriodResult.gracePeriodApplied,
         totalHours |-> None,
         overtimeHours |-> None,
         status |-> "CLOCKED_IN"]

\* TimeClockService.clockIn at instant t: the entries afterwards and the outcome
clockIn(table, entries, employeeId, scheduleId, t) ==
    LET validation == validateClockInOperation(table, entries, employeeId,
                                               scheduleId, t)
    IN  IF ~validation.isValid
        THEN [entries |-> entries, ok |-> FALSE, error |-> validation.error]
        ELSE [entries |-> Append(entries,
                              newTimeEntry(validation.schedule, entries, employeeId,
                                           scheduleId, t)),
              ok |-> TRUE, error |-> ""]

\* variant reading the end from the shift instead of the snapshot, to probe
\* the snapshot property
shiftEndOf(table, existingTimeEntry) == table[existingTimeEntry.scheduleId].endTime

\* clockOut: the scheduled end the grace period is applied against, the
\* entry's snapshot when it has one
scheduledEndOf(table, existingTimeEntry) ==
    IF existingTimeEntry.scheduledEndTime # None
    THEN existingTimeEntry.scheduledEndTime
    ELSE table[existingTimeEntry.scheduleId].endTime

\* the columns clockOut writes to an open entry at instant t
clockedOut(table, existingTimeEntry, t) ==
    LET actualClockOutTime == t
        scheduledEndTime == scheduledEndOf(table, existingTimeEntry)
        gracePeriodResult == applyGracePeriod(actualClockOutTime, scheduledEndTime)
        adjustedStartTime ==
            IF existingTimeEntry.adjustedStartTime # None
            THEN existingTimeEntry.adjustedStartTime
            ELSE existingTimeEntry.clockInTime
        adjustedEndTime == gracePeriodResult.adjustedTime
        finalHours == finalHoursOf(adjustedStartTime, adjustedEndTime)
        overtimeHours == overtimeHoursOf(finalHours)
    IN  [existingTimeEntry EXCEPT
            !.clockOutTime = actualClockOutTime,
            !.adjustedEndTime = adjustedEndTime,
            !.gracePeriodApplied = @ \/ gracePeriodResult.gracePeriodApplied,
            !.totalHours = toDecimalHours(finalHours),
            !.overtimeHours = overtimeColumn(overtimeHours),
            !.status = "CLOCKED_OUT"]

\* TimeClockService.clockOut at instant t
clockOut(table, entries, timeEntryId, t, currentUserId, userRole) ==
    IF timeEntryId \notin 1..Len(entries)
    THEN [entries |-> entries, ok |-> FALSE, error |-> "TIME_ENTRY_NOT_FOUND"]
    ELSE
    LET existingTimeEntry == entries[timeEntryId]
    IN  IF userRole = "EMPLOYEE" /\ existingTimeEntry.employeeId # currentUserId
        THEN [entries |-> entries, ok |-> FALSE,
              error |-> "You can only clock out your own time entries"]
        ELSE IF existingTimeEntry.clockOutTime # None
        THEN [entries |-> entries, ok |-> FALSE,
              error |-> "Already clocked out for this shift"]
        ELSE [entries |-> [entries EXCEPT ![timeEntryId] =
                              clockedOut(table, existingTimeEntry, t)],
              ok |-> TRUE, error |-> ""]

\* the columns adjustTimeEntry writes; clockInTime and clockOutTime are the
\* request's new times, None when not supplied
adjusted(existingTimeEntry, clockInTime, clockOutTime) ==
    LET graceIn == applyGracePeriod(clockInTime, existingTimeEntry.scheduledStartTime)
        graceOut == applyGracePeriod(clockOutTime, existingTimeEntry.scheduledEndTime)
        reapplyIn == clockInTime # None /\ existingTimeEntry.scheduledStartTime # None
        reapplyOut == clockOutTime # None /\ existingTimeEntry.scheduledEndTime # None
        finalClockInTime == IF clockInTime # None THEN clockInTime
                            ELSE existingTimeEntry.clockInTime
        finalClockOutTime == IF clockOutTime # None THEN clockOutTime
                             ELSE existingTimeEntry.clockOutTime
        recalculate == finalClockInTime # None /\ finalClockOutTime # None
        finalHours == finalHoursOf(finalClockInTime, finalClockOutTime)
        overtimeHours == overtimeHoursOf(finalHours)
    IN  [existingTimeEntry EXCEPT
            !.status = "ADJUSTED",
            !.clockInTime = finalClockInTime,
            !.adjustedStartTime = IF reapplyIn THEN graceIn.adjustedTime ELSE @,
            !.clockOutTime = finalClockOutTime,
            !.adjustedEndTime = IF reapplyOut THEN graceOut.adjustedTime ELSE @,
            !.gracePeriodApplied =
                IF reapplyOut THEN @ \/ graceOut.gracePeriodApplied
                ELSE IF reapplyIn THEN graceIn.gracePeriodApplied
                ELSE @,
            !.totalHours = IF recalculate THEN toDecimalHours(finalHours) ELSE @,
            !.overtimeHours = IF recalculate THEN overtimeColumn(overtimeHours) ELSE @]

\* TimeClockService.adjustTimeEntry
adjustTimeEntry(entries, timeEntryId, clockInTime, clockOutTime) ==
    IF timeEntryId \notin 1..Len(entries)
    THEN [entries |-> entries, ok |-> FALSE, error |-> "TIME_ENTRY_NOT_FOUND"]
    ELSE [entries |-> [entries EXCEPT ![timeEntryId] =
                          adjusted(entries[timeEntryId], clockInTime, clockOutTime)],
          ok |-> TRUE, error |-> ""]

-----------------------------------------------------------------------------
(* Calendar of the Date object.  Day 0 of the timestamps is 1 January of   *)
(* epochYear; the organizational zone (America/Vancouver) and the server   *)
(* zone are taken to be one zone of fixed offset, so a wall-clock reading  *)
(* and an instant determine each other.                                    *)

epochYear == 1970

\* variant without the century rule, to probe the calendar property
isLeapYearEveryFourth(y) == y % 4 = 0

isLeapYear(y) == (y % 4 = 0 /\ y % 100 # 0) \/ y % 400 = 0

daysInMonth(y, m) ==
    IF m = 2 THEN (IF isLeapYear(y) THEN 29 ELSE 28)
    ELSE IF m \in {4, 6, 9, 11} THEN 30
    ELSE 31

\* leap years before year y (proleptic Gregorian count)
leapYearsBefore(y) == ((y - 1) \div 4) - ((y - 1) \div 100) + ((y - 1) \div 400)

\* days from 1 January of epochYear to 1 January of year y
daysBeforeYear(y) ==
    365 * (y - epochYear) + leapYearsBefore(y) - leapYearsBefore(epochYear)

RECURSIVE daysBeforeMonth(_, _)
daysBeforeMonth(y, m) ==
    IF m <= 1 THEN 0 ELSE daysInMonth(y, m - 1) + daysBeforeMonth(y, m - 1)

\* the day number of day d of month m (1..12) of year y; a day below 1 or
\* above the month's length runs into the neighbouring months, as Date does
dayIndex(y, m, d) == daysBeforeYear(y) + daysBeforeMonth(y, m) + (d - 1)

\* new Date(year, monthIndex, day) at midnight, monthIndex counted from 0 and
\* running into the following years from 12 on: its day number
newDate(year, monthIndex, day) ==
    dayIndex(year + (monthIndex \div 12), (monthIndex % 12) + 1, day)

getFullYearOfDay(n) ==
    CHOOSE y \in (epochYear + (n \div 366))..(epochYear + (n \div 365) + 1) :
        daysBeforeYear(y) <= n /\ n < daysBeforeYear(y + 1)

\* calendar month (1..12) and day of month of day number n
monthOfDay(n) ==
    LET y == getFullYearOfDay(n)
    IN  CHOOSE m \in 1..12 :
            /\ dayIndex(y, m, 1) <= n
            /\ n < dayIndex(y, m, 1) + daysInMonth(y, m)

getDateOfDay(n) ==
    n - dayIndex(getFullYearOfDay(n), monthOfDay(n), 1) + 1

\* year, month (1..12) and day of month of the instant t
calendarOf(t) ==
    LET n == t \div DayTicks
    IN  [year |-> getFullYearOfDay(n), month |-> monthOfDay(n),
         day |-> getDateOfDay(n)]

\* T23:59:59 of day d: the last tick of the day
endOfDay(d) == At(d, 23, 59) + MinuteTicks - 1

-----------------------------------------------------------------------------
(* PayPeriodService.generatePayPeriodDates *)

generatePayPeriodDates(year, month, period) ==
    LET startDay == IF period = "A" THEN 1 ELSE 16
        endDay == IF period = "A" THEN 15
                  ELSE getDateOfDay(newDate(year, month, 0))
        payDay == endDay + 5
        lastDayOfMonth == getDateOfDay(newDate(year, month, 0))
        overflows == payDay > lastDayOfMonth
        actualPayDay == IF overflows THEN payDay - lastDayOfMonth ELSE payDay
        payMonth == IF ~overflows THEN month
                    ELSE IF month + 1 > 12 THEN 1 ELSE month + 1
        payYear == IF overflows /\ month + 1 > 12 THEN year + 1 ELSE year
    IN  [startDate |-> At(dayIndex(year, month, startDay), 0, 0),
         endDate |-> endOfDay(dayIndex(year, month, endDay)),
         payDate |-> At(dayIndex(payYear, payMonth, actualPayDay), 0, 0)]

-----------------------------------------------------------------------------
(* Rows of the pay_periods table: id, startDate, endDate, payDate, status. *)
(* The table is a sequence and a row's id is its index; a row removed by   *)
(* deletePayPeriod stays in the sequence with deleted = TRUE, so that ids  *)
(* are never used twice, and no query sees it.                             *)

livePayPeriods(periods) == {r \in SeqRange(periods) : ~r.deleted}

\* prisma.payPeriod.findUnique({ where: { id } }) finds a row
hasPayPeriod(periods, id) == id \in 1..Len(periods) /\ ~periods[id].deleted

\* variant without the unique index, to probe the uniqueness property
noPayPeriodIndex(periods, startDate, endDate) == FALSE

\* the unique index pay_periods_start_date_end_date_key rejects the insert
payPeriodUniqueViolation(periods, startDate, endDate) ==
    \E r \in livePayPeriods(periods) :
        r.startDate = startDate /\ r.endDate = endDate

\* createPayPeriod: prisma.payPeriod.findFirst on the two dates finds a row
findPayPeriodByDates(periods, dates) ==
    \E r \in livePayPeriods(periods) :
        r.startDate = dates.startDate /\ r.endDate = dates.endDate

\* createPayPeriod: prisma.payPeriod.create
insertPayPeriod(periods, dates) ==
    IF payPeriodUniqueViolation(periods, dates.startDate, dates.endDate)
    THEN [table |-> periods, ok |-> FALSE, error |-> "Unique constraint failed"]
    ELSE [table |-> Append(periods,
                        [id |-> Len(periods) + 1,
                         startDate |-> dates.startDate,
                         endDate |-> dates.endDate,
                         payDate |-> dates.payDate,
                         status |-> "OPEN",
                         deleted |-> FALSE]),
          ok |-> TRUE, error |-> "", id |-> Len(periods) + 1]

\* PayPeriodService.createPayPeriod, handled without interruption
createPayPeriod(periods, year, month, period) ==
    LET dates == generatePayPeriodDates(year, month, period)
    IN  IF findPayPeriodByDates(periods, dates)
        THEN [table |-> periods, ok |-> FALSE, error |-> "already exists"]
        ELSE insertPayPeriod(periods, dates)

\* PayPeriodService.getPacificTimeToday at instant t
getPacificTimeToday(t) == calendarOf(t)

\* variant that keeps the current year on 1 January, to probe the completed
\* period property
canGenerateSameYear(t) ==
    LET pacificToday == getPacificTimeToday(t)
        year == pacificToday.year
        month == pacificToday.month
        day == pacificToday.day
        prevMonth == IF month = 1 THEN 12 ELSE month - 1
    IN  IF day = 16
        THEN [canGenerate |-> TRUE, reason |-> "16th of month",
              periodInfo |-> [year |-> year, month |-> month, period |-> "A"]]
        ELSE IF day = 1
        THEN [canGenerate |-> TRUE, reason |-> "1st of month",
              periodInfo |-> [year |-> year, month |-> prevMonth,
                              period |-> "B"]]
        ELSE [canGenerate |-> FALSE,
              reason |-> "can only generate on 16th or 1st of month"]

\* PayPeriodService.canGenerateCompletedPeriod at instant t
canGenerateCompletedPeriod(t) ==
    LET pacificToday == getPacificTimeToday(t)
        year == pacificToday.year
        month == pacificToday.month
        day == pacificToday.day
        prevMonth == IF month = 1 THEN 12 ELSE month - 1
        prevYear == IF month = 1 THEN year - 1 ELSE year
    IN  IF day = 16
        THEN [canGenerate |-> TRUE, reason |-> "16th of month",
              periodInfo |-> [year |-> year, month |-> month, period |-> "A"]]
        ELSE IF day = 1
        THEN [canGenerate |-> TRUE, reason |-> "1st of month",
              periodInfo |-> [year |-> prevYear, month |-> prevMonth,
                              period |-> "B"]]
        ELSE [canGenerate |-> FALSE,
              reason |-> "can only generate on 16th or 1st of month"]

\* createCompletedPeriodPayPeriod: the error it throws for an error of
\* createPayPeriod
completedPeriodError(error) ==
    IF error = "already exists"
    THEN "already exists - cannot generate duplicate period"
    ELSE error

\* PayPeriodService.createCompletedPeriodPayPeriod at instant t, handled
\* without interruption
createCompletedPeriodPayPeriod(periods, t) ==
    LET generationCheck == canGenerateCompletedPeriod(t)
    IN  IF ~generationCheck.canGenerate
        THEN [table |-> periods, ok |-> FALSE, error |-> generationCheck.reason]
        ELSE LET periodInfo == generationCheck.periodInfo
                 result == createPayPeriod(periods, periodInfo.year,
                                           periodInfo.month, periodInfo.period)
             IN  IF result.ok THEN result
                 ELSE [result EXCEPT !.error = completedPeriodError(@)]

\* Date.getMonth (0..11) and Date.getFullYear
getMonth(t) == calendarOf(t).month - 1
getFullYear(t) == calendarOf(t).year

\* generateUpcomingPeriods: the request of iteration i (from 0) of the loop
\* started at instant t
upcomingPeriod(t, i) ==
    LET month == getMonth(t) + (i \div 2) + 1
        year == getFullYear(t) + ((getMonth(t) + (i \div 2)) \div 12)
        adjustedMonth == ((month - 1) % 12) + 1
        adjustedYear == year + ((month - 1) \div 12)
    IN  [year |-> adjustedYear, month |-> adjustedMonth,
         period |-> IF i % 2 = 0 THEN "A" ELSE "B"]

-----------------------------------------------------------------------------
(* PayrollCalculationService.calculateEmployeePayroll: the hours of the    *)
(* result.  Rows of the pay_periods table: id, startDate, endDate; a row's *)
(* id is its index.  An hours value read from a DECIMAL(4,2) column is a   *)
(* whole number of hundredths, and so are the sums.                        *)

\* employee.payType of the users table
payTypeOf(u) == IF u = "e1" THEN "SALARY" ELSE "HOURLY"

\* Number(employee.payRate) of the users table, a DECIMAL(10,2) given in
\* cents an hour; null for the administrator
payRateOf(u) == IF u = "e1" THEN 3000 ELSE IF u = "e2" THEN 2033 ELSE None

\* DEFAULT_OVERTIME_RULES.overtimeMultiplier (1.5) in tenths, and the flat
\* DEFAULT_DEDUCTION_RATES in hundredths of a percent
DEFAULT_OVERTIME_RULES == [overtimeMultiplier |-> 15]
DEFAULT_DEDUCTION_RATES == [cpp |-> 595, ei |-> 163, tax |-> 1500]

\* hours assumed for a salaried employee without time entries
salaryDefaultHours == 75

\* Math.round(x * 100) / 100 for x = num / den, in hundredths
roundToHundredths(num, den) == (2 * 100 * num + den) \div (2 * den)

\* quotient and remainder of a * b by den, the product built bit by bit of b
\* so that no intermediate value leaves the 32-bit range
RECURSIVE productDivMod(_, _, _)
productDivMod(a, b, den) ==
    IF b = 0 THEN [q |-> 0, r |-> 0]
    ELSE LET half == productDivMod(a, b \div 2, den)
             t == 2 * half.r + (b % 2) * a
         IN  [q |-> 2 * half.q + (t \div den), r |-> t % den]

\* Math.round(a * b / den)
roundedProduct(a, b, den) ==
    LET p == productDivMod(a, b, den)
    IN  p.q + (IF 2 * p.r >= den THEN 1 ELSE 0)

\* variant that pays overtime hours at the plain rate, to probe the pay
\* amount property
payAmountsFlatOvertime(totalRegularHours, totalOvertimeHours, payRate) ==
    LET totalRate == DEFAULT_DEDUCTION_RATES.cpp + DEFAULT_DEDUCTION_RATES.ei
                         + DEFAULT_DEDUCTION_RATES.tax
        totalHours == totalRegularHours + totalOvertimeHours
        grossPay == roundedProduct(totalHours, payRate, 100)
    IN  [regularPay |-> roundedProduct(totalRegularHours, payRate, 100),
         overtimePay |-> roundedProduct(totalOvertimeHours, payRate, 100),
         grossPay |-> grossPay,
         deductions |-> roundedProduct(grossPay, totalRate, 10000),
         netPay |-> roundedProduct(grossPay, 10000 - totalRate, 10000)]

\* calculateEmployeePayroll: the pay amounts returned, in cents, for hours in
\* hundredths and a rate in cents an hour.  The unrounded amounts are kept
\* in thousandths of a cent (the multiplier is in tenths), the rates are in
\* hundredths of a percent; only the returned values are rounded.
payAmounts(totalRegularHours, totalOvertimeHours, payRate) ==
    LET regularPay == totalRegularHours * payRate * 10
        overtimePay == totalOvertimeHours * payRate
                           * DEFAULT_OVERTIME_RULES.overtimeMultiplier
        grossPay == regularPay + overtimePay
        totalRate == DEFAULT_DEDUCTION_RATES.cpp + DEFAULT_DEDUCTION_RATES.ei
                         + DEFAULT_DEDUCTION_RATES.tax
    IN  [regularPay |-> roundedProduct(regularPay, 1, 1000),
         overtimePay |-> roundedProduct(overtimePay, 1, 1000),
         grossPay |-> roundedProduct(grossPay, 1, 1000),
         deductions |-> roundedProduct(grossPay, totalRate, 10000000),
         netPay |-> roundedProduct(grossPay, 10000 - totalRate, 10000000)]

\* entry.totalHours ? Number(entry.totalHours) : 0
numberOrZero(column) == IF column # None THEN column ELSE 0

\* the findMany filter: completed entries of the employee whose shift starts
\* inside the pay period, both bounds included
payrollEntries(table, entries, employeeId, payPeriod) ==
    SelectSeq(entries, LAMBDA te :
        /\ te.employeeId = employeeId
        /\ te.clockOutTime # None
        /\ table[te.scheduleId].startTime >= payPeriod.startDate
        /\ table[te.scheduleId].startTime <= payPeriod.endDate)

\* the running totals of the map over the entries
RECURSIVE accumulateHours(_, _)
accumulateHours(rows, totals) ==
    IF rows = <<>> THEN totals
    ELSE LET entry == Head(rows)
             regularHours == numberOrZero(entry.totalHours)
             overtimeHours == numberOrZero(entry.overtimeHours)
         IN  accumulateHours(Tail(rows),
                 [totalRegularHours |->
                      totals.totalRegularHours + regularHours - overtimeHours,
                  totalOvertimeHours |->
                      totals.totalOvertimeHours + overtimeHours])

calculateEmployeePayroll(table, entries, periods, employeeId, payPeriodId, payRate, payType) ==
    IF ~hasPayPeriod(periods, payPeriodId)
    THEN [ok |-> FALSE, error |-> "Pay period not found"]
    ELSE
    LET payPeriod == periods[payPeriodId]
        rows == payrollEntries(table, entries, employeeId, payPeriod)
        summed == accumulateHours(rows, [totalRegularHours |-> 0,
                                         totalOvertimeHours |-> 0])
        useDefault == payType = "SALARY" /\ Len(rows) = 0
        totalRegularHours == IF useDefault THEN salaryDefaultHours * 100
                             ELSE summed.totalRegularHours
        totalOvertimeHours == IF useDefault THEN 0 ELSE summed.totalOvertimeHours
        amounts == payAmounts(totalRegularHours, totalOvertimeHours, payRate)
    IN  [ok |-> TRUE, error |-> "",
         result |->
             [employeeId |-> employeeId,
              payPeriodId |-> payPeriodId,
              regularHours |-> roundToHundredths(totalRegularHours, 100),
              overtimeHours |-> roundToHundredths(totalOvertimeHours, 100),
              totalHours |->
                  roundToHundredths(totalRegularHours + totalOvertimeHours, 100),
              regularPay |-> amounts.regularPay,
              overtimePay |-> amounts.overtimePay,
              grossPay |-> amounts.grossPay,
              deductions |-> amounts.deductions,
              netPay |-> amounts.netPay,
              timeEntriesCount |-> Len(rows)]]

-----------------------------------------------------------------------------
(* PayrollCalculationService.calculateBatchPayroll.  The users table is    *)
(* fixed: e1, e2 and a1 in the order findMany returns them, all ACTIVE.    *)
(* failing is the set of employees whose calculateEmployeePayroll call     *)
(* throws (a rejected query) in this run of the batch.                     *)

UserRows == <<"e1", "e2", "a1">>

\* a null payType
NoPayType == ""

\* the employeeIds of a request: absent, or the array of ids given
NoEmployeeIds == [given |-> FALSE, ids |-> {}]
employeeIdsOf(ids) == [given |-> TRUE, ids |-> ids]

userStatusOf(u) == "ACTIVE"

\* the findMany filter of the batch: ACTIVE users with a pay rate and a pay
\* type, among employeeIds when the request names any
eligibleEmployees(employeeIds) ==
    SelectSeq(UserRows, LAMBDA u :
        /\ userStatusOf(u) = "ACTIVE"
        /\ payRateOf(u) # None
        /\ payTypeOf(u) # NoPayType
        /\ (employeeIds.given /\ employeeIds.ids # {}) => u \in employeeIds.ids)

\* the for loop: the calculations pushed to employeeCalculations
RECURSIVE employeeCalculations(_, _, _, _, _, _)
employeeCalculations(table, entries, periods, payPeriodId, employees, failing) ==
    IF employees = <<>> THEN <<>>
    ELSE LET employee == Head(employees)
             calculation ==
                 calculateEmployeePayroll(table, entries, periods, employee,
                     payPeriodId, payRateOf(employee), payTypeOf(employee))
             rest == employeeCalculations(table, entries, periods, payPeriodId,
                                          Tail(employees), failing)
         IN  IF employee \in failing \/ ~calculation.ok
             THEN rest
             ELSE <<calculation.result>> \o rest

\* calculations.reduce((sum, calc) => sum + calc[field], 0)
RECURSIVE sumOf(_, _)
sumOf(calculations, field) ==
    IF calculations = <<>> THEN 0
    ELSE Head(calculations)[field] + sumOf(Tail(calculations), field)

batchSummary(calculations) ==
    LET totalEmployees == Len(calculations)
        totalRegularHours == sumOf(calculations, "regularHours")
        totalOvertimeHours == sumOf(calculations, "overtimeHours")
        totalGrossPay == sumOf(calculations, "grossPay")
    IN  [totalEmployees |-> totalEmployees,
         totalRegularHours |-> totalRegularHours,
         totalOvertimeHours |-> totalOvertimeHours,
         totalGrossPay |-> totalGrossPay,
         totalDeductions |-> sumOf(calculations, "deductions"),
         totalNetPay |-> sumOf(calculations, "netPay"),
         averageHoursPerEmployee |->
             IF totalEmployees > 0
             THEN roundToHundredths(totalRegularHours + totalOvertimeHours,
                                    100 * totalEmployees)
             ELSE 0,
         averagePayPerEmployee |->
             IF totalEmployees > 0
             THEN roundToHundredths(totalGrossPay, 100 * totalEmployees)
             ELSE 0]

calculateBatchPayroll(table, entries, periods, payPeriodId, employeeIds, failing) ==
    IF ~hasPayPeriod(periods, payPeriodId)
    THEN [ok |-> FALSE, error |-> "Pay period not found"]
    ELSE LET employees == eligibleEmployees(employeeIds)
         IN  IF Len(employees) = 0
             THEN [ok |-> FALSE, error |-> "No eligible employees found"]
             ELSE LET calculations ==
                          employeeCalculations(table, entries, periods,
                                               payPeriodId, employees, failing)
                  IN  [ok |-> TRUE, error |-> "",
                       result |->
                           [payPeriodId |-> payPeriodId,
                            payPeriod |->
                                [startDate |-> periods[payPeriodId].startDate,
                                 endDate |-> periods[payPeriodId].endDate],
                            employees |-> calculations,
                            summary |-> batchSummary(calculations)]]

-----------------------------------------------------------------------------
(* PayPeriodService.updatePayPeriod and deletePayPeriod, and the payslip   *)
(* operations of PayslipService.  Rows of the payslips table: id,          *)
(* employeeId, payPeriodId, regularHours, overtimeHours (hundredths of an  *)
(* hour), grossPay, deductions, netPay (cents), filePath.  A row's id is   *)
(* its index; a removed row stays in the sequence with deleted = TRUE and  *)
(* no query sees it.  Each operation is handled without interruption.      *)

PayPeriodStatuses == {"OPEN", "PROCESSING", "COMPLETED", "PAID"}

livePayslips(slips) == {r \in SeqRange(slips) : ~r.deleted}

\* prisma.payslip.findUnique({ where: { id } }) finds a row
hasPayslip(slips, id) == id \in 1..Len(slips) /\ ~slips[id].deleted

\* prisma.payslip.count({ where: { payPeriodId } })
payslipCount(slips, payPeriodId) ==
    Cardinality({r \in livePayslips(slips) : r.payPeriodId = payPeriodId})

\* an absent (or empty) status of an update request
NoStatus == ""

\* PayPeriodService.updatePayPeriod; an absent payDate is None
updatePayPeriod(periods, id, payDate, status) ==
    IF ~hasPayPeriod(periods, id)
    THEN [periods |-> periods, ok |-> FALSE, error |-> "Pay period not found"]
    ELSE [periods |->
              [periods EXCEPT
                   ![id].payDate = IF payDate # None THEN payDate ELSE @,
                   ![id].status = IF status # NoStatus THEN status ELSE @],
          ok |-> TRUE, error |-> ""]

\* PayPeriodService.deletePayPeriod
deletePayPeriod(periods, slips, id) ==
    IF ~hasPayPeriod(periods, id)
    THEN [periods |-> periods, ok |-> FALSE, error |-> "Pay period not found"]
    ELSE IF payslipCount(slips, id) > 0
    THEN [periods |-> periods, ok |-> FALSE,
          error |-> "Cannot delete pay period with existing payslips"]
    ELSE [periods |-> [periods EXCEPT ![id].deleted = TRUE],
          ok |-> TRUE, error |-> ""]

\* the unique index payslips_employee_id_pay_period_id_key and the foreign
\* key payslips_pay_period_id_fkey reject the insert
payslipInsertRejected(periods, slips, employeeId, payPeriodId) ==
    \/ ~hasPayPeriod(periods, payPeriodId)
    \/ \E r \in livePayslips(slips) :
           r.employeeId = employeeId /\ r.payPeriodId = payPeriodId

\* prisma.payslip.deleteMany({ where: { employeeId, payPeriodId } })
deletePayslipsOf(slips, employeeId, payPeriodId) ==
    [i \in 1..Len(slips) |->
        IF slips[i].employeeId = employeeId /\ slips[i].payPeriodId = payPeriodId
        THEN [slips[i] EXCEPT !.deleted = TRUE]
        ELSE slips[i]]

payslipRow(id, employeeId, payPeriodId, calc, filePath) ==
    [id |-> id, employeeId |-> employeeId, payPeriodId |-> payPeriodId,
     regularHours |-> calc.regularHours, overtimeHours |-> calc.overtimeHours,
     grossPay |-> calc.grossPay, deductions |-> calc.deductions,
     netPay |-> calc.netPay, filePath |-> filePath, deleted |-> FALSE]

\* generatePayslips: the for loop over payrollCalculation.employees; a
\* rejected create is logged and skipped
RECURSIVE createPayslips(_, _, _, _, _)
createPayslips(periods, slips, payPeriodId, calculations, recalculate) ==
    IF calculations = <<>> THEN slips
    ELSE LET calc == Head(calculations)
             cleared == IF recalculate
                        THEN deletePayslipsOf(slips, calc.employeeId, payPeriodId)
                        ELSE slips
             created ==
                 IF payslipInsertRejected(periods, cleared, calc.employeeId,
                                          payPeriodId)
                 THEN cleared
                 ELSE Append(cleared,
                             payslipRow(Len(cleared) + 1, calc.employeeId,
                                        payPeriodId, calc, None))
         IN  createPayslips(periods, created, payPeriodId, Tail(calculations),
                            recalculate)

\* PayslipService.generatePayslips
generatePayslips(table, entries, periods, slips, payPeriodId, employeeIds, recalculate, failing) ==
    LET unchanged == [periods |-> periods, slips |-> slips, ok |-> FALSE]
        existingPayslips ==
            Cardinality({r \in livePayslips(slips) :
                /\ r.payPeriodId = payPeriodId
                /\ employeeIds.given => r.employeeId \in employeeIds.ids})
        payrollCalculation ==
            calculateBatchPayroll(table, entries, periods, payPeriodId,
                                  employeeIds, failing)
    IN  IF ~hasPayPeriod(periods, payPeriodId)
        THEN unchanged @@ [error |-> "Pay period not found"]
        ELSE IF periods[payPeriodId].status = "PAID"
        THEN unchanged @@ [error |-> "Cannot generate payslips for a paid period"]
        ELSE IF ~recalculate /\ existingPayslips > 0
        THEN unchanged @@ [error |-> "Payslips already exist for this period"]
        ELSE IF ~payrollCalculation.ok
        THEN unchanged @@ [error |-> payrollCalculation.error]
        ELSE IF Len(payrollCalculation.result.employees) = 0
        THEN unchanged @@ [error |-> "No employees eligible for payroll generation"]
        ELSE [periods |-> [periods EXCEPT ![payPeriodId].status = "PROCESSING"],
              slips |-> createPayslips(periods, slips, payPeriodId,
                                       payrollCalculation.result.employees,
                                       recalculate),
              ok |-> TRUE, error |-> ""]

\* PayslipService.updatePayslip; an absent deductions is None
updatePayslip(slips, id, deductions) ==
    IF ~hasPayslip(slips, id)
    THEN [slips |-> slips, ok |-> FALSE, error |-> "Payslip not found"]
    ELSE [slips |->
              IF deductions = None THEN slips
              ELSE [slips EXCEPT ![id].deductions = deductions,
                                 ![id].netPay =
                                     numberOrZero(slips[id].grossPay)
                                         - deductions],
          ok |-> TRUE, error |-> ""]

\* PayslipService.deletePayslip
deletePayslip(periods, slips, id) ==
    IF ~hasPayslip(slips, id)
    THEN [slips |-> slips, ok |-> FALSE, error |-> "Payslip not found"]
    ELSE IF periods[slips[id].payPeriodId].status = "PAID"
    THEN [slips |-> slips, ok |-> FALSE,
          error |-> "Cannot delete payslip from a paid period"]
    ELSE [slips |-> [slips EXCEPT ![id].deleted = TRUE],
          ok |-> TRUE, error |-> ""]

\* PayslipService.markPayPeriodAsPaid
markPayPeriodAsPaid(periods, slips, payPeriodId) ==
    IF ~hasPayPeriod(periods, payPeriodId)
    THEN [periods |-> periods, ok |-> FALSE, error |-> "Pay period not found"]
    ELSE IF payslipCount(slips, payPeriodId) = 0
    THEN [periods |-> periods, ok |-> FALSE,
          error |-> "Cannot mark pay period as paid - no payslips exist"]
    ELSE IF periods[payPeriodId].status = "PAID"
    THEN [periods |-> periods, ok |-> FALSE,
          error |-> "Pay period is already marked as paid"]
    ELSE [periods |-> [periods EXCEPT ![payPeriodId].status = "PAID"],
          ok |-> TRUE, error |-> ""]

\* firstName and lastName of the users table; a last name is the sequence of
\* its words
firstNameOf(u) ==
    IF u = "e1" THEN "John" ELSE IF u = "e2" THEN "Mary" ELSE "Ada"
lastNameOf(u) ==
    IF u = "e1" THEN <<"Doe">> ELSE IF u = "e2" THEN <<"Major">> ELSE <<"Min">>

\* the result of a findFirst on the users table that finds no row
NoUser == ""

\* prisma.user.findFirst on the first name, the last name and role EMPLOYEE
findEmployeeByName(firstName, lastName) ==
    LET found == SelectSeq(UserRows, LAMBDA u :
                     /\ firstNameOf(u) = firstName
                     /\ lastNameOf(u) = lastName
                     /\ roleOf(u) = "EMPLOYEE")
    IN  IF found = <<>> THEN NoUser ELSE Head(found)

\* the calculation columns of a payslip created with only filePath
noCalculation ==
    [regularHours |-> None, overtimeHours |-> None, grossPay |-> None,
     deductions |-> None, netPay |-> None]

\* bulkUploadPayslipFiles: the for loop.  file.originalname without its
\* extension is given as the sequence of its parts around " - ", the part
\* after the first as the sequence of its words; file.filename is the name
\* the file is stored under.  fileOnlyAccepted tells whether the table takes
\* a row without the calculation columns: they are NOT NULL in the init
\* migration and null in the handler's create.
RECURSIVE uploadPayslipFiles(_, _, _, _, _, _)
uploadPayslipFiles(periods, slips, payPeriodId, files, fileOnlyAccepted, counts) ==
    IF files = <<>> THEN [slips |-> slips] @@ counts
    ELSE
    LET file == Head(files)
        parts == file.originalname
        nameParts == parts[2]
        employee == findEmployeeByName(nameParts[1], Tail(nameParts))
        existing == {r \in livePayslips(slips) :
                        r.employeeId = employee /\ r.payPeriodId = payPeriodId}
        existingPayslip == CHOOSE r \in existing : TRUE
        failed == [counts EXCEPT !.failed = @ + 1]
        succeeded == [counts EXCEPT !.success = @ + 1]
        skip(error) ==
            uploadPayslipFiles(periods, slips, payPeriodId, Tail(files),
                fileOnlyAccepted,
                [failed EXCEPT !.errors = Append(@, error)])
    IN  IF Len(parts) < 2 THEN skip("Invalid filename format")
        ELSE IF Len(nameParts) < 2 THEN skip("Invalid name format")
        ELSE IF employee = NoUser THEN skip("Employee not found")
        ELSE IF existing # {}
        THEN uploadPayslipFiles(periods,
                 [slips EXCEPT ![existingPayslip.id].filePath = file.filename],
                 payPeriodId, Tail(files), fileOnlyAccepted, succeeded)
        ELSE IF \/ ~fileOnlyAccepted
                \/ payslipInsertRejected(periods, slips, employee, payPeriodId)
        THEN skip("Failed to process")
        ELSE uploadPayslipFiles(periods,
                 Append(slips, payslipRow(Len(slips) + 1, employee, payPeriodId,
                                          noCalculation, file.filename)),
                 payPeriodId, Tail(files), fileOnlyAccepted, succeeded)

\* PayslipService.bulkUploadPayslipFiles
bulkUploadPayslipFiles(periods, slips, payPeriodId, files, fileOnlyAccepted) ==
    uploadPayslipFiles(periods, slips, payPeriodId, files, fileOnlyAccepted,
                       [success |-> 0, failed |-> 0, errors |-> <<>>])

-----------------------------------------------------------------------------
(* Time clock and payroll operations as actions.  now is the server clock, *)
(* the value new Date() returns while a request is handled; it never runs  *)
(* backwards.                                                              *)

\* time passes up to instant t
Tick(t) ==
    /\ t > now
    /\ now' = t
    /\ UNCHANGED <<schedules, timeEntries, payPeriods, requests, response, payslips>>

ClockIn(employeeId, scheduleId) ==
    \E r \in {clockIn(schedules, timeEntries, employeeId, scheduleId, now)} :
        /\ timeEntries' = r.entries
        /\ response' = [op |-> "clockIn", ok |-> r.ok, error |-> r.error]
        /\ UNCHANGED <<schedules, payPeriods, now, requests, payslips>>

\* the caller's role is the role of the authenticated user
ClockOut(timeEntryId, currentUserId) ==
    \E r \in {clockOut(schedules, timeEntries, timeEntryId, now, currentUserId,
                      roleOf(currentUserId))} :
        /\ timeEntries' = r.entries
        /\ response' = [op |-> "clockOut", ok |-> r.ok, error |-> r.error]
        /\ UNCHANGED <<schedules, payPeriods, now, requests, payslips>>

AdjustTimeEntry(timeEntryId, clockInTime, clockOutTime) ==
    \E r \in {adjustTimeEntry(timeEntries, timeEntryId, clockInTime, clockOutTime)} :
        /\ timeEntries' = r.entries
        /\ response' = [op |-> "adjustTimeEntry", ok |-> r.ok, error |-> r.error]
        /\ UNCHANGED <<schedules, payPeriods, now, requests, payslips>>

\* the pay type passed is the employee's, as calculateBatchPayroll passes it
CalculateEmployeePayroll(employeeId, payPeriodId) ==
    \E r \in {calculateEmployeePayroll(schedules, timeEntries, payPeriods,
                  employeeId, payPeriodId, payRateOf(employeeId),
                  payTypeOf(employeeId))} :
        /\ response' = [op |-> "calculateEmployeePayroll"] @@ r
        /\ UNCHANGED <<schedules, timeEntries, payPeriods, now, requests, payslips>>

\* applyPayrollRounding applied to the instant now
ApplyPayrollRounding ==
    /\ response' = [op |-> "applyPayrollRounding", originalTime |-> now,
                    roundedTime |-> applyPayrollRounding(now)]
    /\ UNCHANGED <<schedules, timeEntries, payPeriods, now, requests, payslips>>

-----------------------------------------------------------------------------
(* Specification of the time clock and the payroll aggregation over a      *)
(* roster of two shifts of one employee on one day; requests arrive at the *)
(* instants that matter to the shifts: just before the clock-in window of  *)
(* the first shift opens, and each start and end.                          *)

scheduleRow(id, employeeId, startTime, endTime, isActive) ==
    [id |-> id, employeeId |-> employeeId, startTime |-> startTime,
     endTime |-> endTime, isActive |-> isActive]

\* e1 works 09:00-18:00 and 18:00-22:00, back to back (what createSchedule
\* twice builds)
ClockRoster ==
    <<scheduleRow(1, "e1", At(0, 9, 0), At(0, 18, 0), TRUE),
      scheduleRow(2, "e1", At(0, 18, 0), At(0, 22, 0), TRUE)>>

\* the two pay periods of the month of day 0 as createPayPeriod builds
\* them: the first holds day 0, the second holds no shift
ClockPayPeriods ==
    createPayPeriod(createPayPeriod(<<>>, epochYear, 1, "A").table,
                    epochYear, 1, "B").table

ClockTimes ==
    {ClockRoster[1].startTime - clockInWindowMinutes * MinuteTicks - 1}
    \cup {r.startTime : r \in SeqRange(ClockRoster)}
    \cup {r.endTime : r \in SeqRange(ClockRoster)}

\* the times an adjustment request names: the starts and ends of the shifts
AdjustTimes ==
    {r.startTime : r \in SeqRange(ClockRoster)}
    \cup {r.endTime : r \in SeqRange(ClockRoster)}

EarliestOf(times) == CHOOSE t \in times : \A u \in times : t <= u

ClockInit ==
    /\ schedules = ClockRoster
    /\ timeEntries = <<>>
    /\ payPeriods = ClockPayPeriods
    /\ payslips = <<>>
    /\ now = EarliestOf(ClockTimes)
    /\ requests = NoRequests
    /\ response = NoResponse

\* ids a request names: the rows of the table and one id of no row
TimeEntryIds == 1..(Len(timeEntries) + 1)
PayPeriodIds == 1..(Len(payPeriods) + 1)

ClockNext ==
    \/ \E t \in ClockTimes : Tick(t)
    \/ \E e \in Employees, sid \in 1..(Len(schedules) + 1) :
           Len(timeEntries) < MaxEntries /\ ClockIn(e, sid)
    \/ \E id \in TimeEntryIds, u \in UserIds : ClockOut(id, u)
    \/ \E id \in TimeEntryIds, tin \in {None} \cup AdjustTimes,
          tout \in {None} \cup AdjustTimes :
           AdjustTimeEntry(id, tin, tout)
    \/ \E e \in Employees, pid \in PayPeriodIds : CalculateEmployeePayroll(e, pid)

SpecClock == ClockInit /\ [][ClockNext]_vars

-----------------------------------------------------------------------------
(* Specification of the hours of one time entry: one shift whose start and *)
(* end are off the quarter hours, and requests at instants inside and      *)
(* outside the grace windows, so that the grace period and the payroll     *)
(* rounding both change values.                                            *)

\* e1 works 09:10-17:55
HoursRoster == <<scheduleRow(1, "e1", At(0, 9, 10), At(0, 17, 55), TRUE)>>

\* before the clock-in window (09:04:30), inside the grace window of the
\* start (09:06), just after it (09:15:30), inside the grace window of the
\* end (17:53), just after it (18:00:30)
HoursTimes ==
    LET shift == HoursRoster[1]
    IN  {shift.startTime - clockInWindowMinutes * MinuteTicks - 1,
         shift.startTime - 4 * MinuteTicks,
         shift.startTime + gracePeriodMinutes * MinuteTicks + 1,
         shift.endTime - 2 * MinuteTicks,
         shift.endTime + gracePeriodMinutes * MinuteTicks + 1}

HoursInit ==
    /\ schedules = HoursRoster
    /\ timeEntries = <<>>
    /\ payPeriods = ClockPayPeriods
    /\ payslips = <<>>
    /\ now = EarliestOf(HoursTimes)
    /\ requests = NoRequests
    /\ response = NoResponse

\* one clock-in succeeds; the entry is then clocked out and adjusted freely
HoursNext ==
    \/ \E t \in HoursTimes : Tick(t)
    \/ \E e \in Employees, sid \in 1..(Len(schedules) + 1) :
           timeEntries = <<>> /\ ClockIn(e, sid)
    \/ \E id \in TimeEntryIds, u \in UserIds : ClockOut(id, u)
    \/ \E id \in TimeEntryIds, tin \in {None} \cup HoursTimes,
          tout \in {None} \cup HoursTimes :
           AdjustTimeEntry(id, tin, tout)

SpecHours == HoursInit /\ [][HoursNext]_vars

-----------------------------------------------------------------------------
(* Specification of the time clock while the shift is edited: the shift of *)
(* SpecHours, the same instants, and updateSchedule / deleteSchedule       *)
(* requests on the shift between the time clock requests.                  *)

\* edits of the shift: a later end, an earlier start, a deactivation
SnapshotUpdates ==
    {("endTime" :> At(0, 18, 30)), ("startTime" :> At(0, 9, 0)),
     ("isActive" :> FALSE)}

\* the times an adjustment request names here
SnapshotAdjustTimes ==
    {HoursRoster[1].startTime - 4 * MinuteTicks,
     HoursRoster[1].endTime - 2 * MinuteTicks}

SnapshotNext ==
    \/ \E t \in HoursTimes : Tick(t)
    \/ \E e \in Employees, sid \in 1..(Len(schedules) + 1) :
           timeEntries = <<>> /\ ClockIn(e, sid)
    \/ \E id \in TimeEntryIds, u \in UserIds : ClockOut(id, u)
    \/ \E id \in TimeEntryIds, tin \in {None} \cup SnapshotAdjustTimes,
          tout \in {None} \cup SnapshotAdjustTimes :
           AdjustTimeEntry(id, tin, tout)
    \/ \E id \in ScheduleIds, data \in SnapshotUpdates : UpdateSchedule(id, data)
    \/ \E id \in ScheduleIds : DeleteSchedule(id)

SpecSnapshot == HoursInit /\ [][SnapshotNext]_vars

-----------------------------------------------------------------------------
(* Specification tabulating applyPayrollRounding: the timestamp is any     *)
(* instant of the first MaxRoundHours hours.                               *)

RoundInit ==
    /\ schedules = <<>>
    /\ timeEntries = <<>>
    /\ payPeriods = <<>>
    /\ payslips = <<>>
    /\ now \in 0..(MaxRoundHours * HourTicks - 1)
    /\ requests = NoRequests
    /\ response = NoResponse

RoundNext == ApplyPayrollRounding

SpecRound == RoundInit /\ [][RoundNext]_vars

-----------------------------------------------------------------------------
(* Specification tabulating generatePayPeriodDates over every month and    *)
(* period of a few years: leap (2000, 2024) and not (2023, 2025, 2100).    *)

PeriodYears == {2000, 2023, 2024, 2025, 2100}

GeneratePayPeriodDates(year, month, period) ==
    /\ response' = [op |-> "generatePayPeriodDates", year |-> year,
                    month |-> month, period |-> period,
                    result |-> generatePayPeriodDates(year, month, period)]
    /\ UNCHANGED <<schedules, timeEntries, payPeriods, now, requests, payslips>>

PeriodDatesInit ==
    /\ schedules = <<>>
    /\ timeEntries = <<>>
    /\ payPeriods = <<>>
    /\ payslips = <<>>
    /\ now = 0
    /\ requests = NoRequests
    /\ response = NoResponse

PeriodDatesNext ==
    \E year \in PeriodYears, month \in 1..12, period \in {"A", "B"} :
        GeneratePayPeriodDates(year, month, period)

SpecPeriodDates == PeriodDatesInit /\ [][PeriodDatesNext]_vars

-----------------------------------------------------------------------------
(* Specification tabulating applyGracePeriod: the punch is any instant up  *)
(* to MaxGraceWindow + 1 minutes before or after 09:00, the scheduled time *)
(* is 09:00 or 09:01:30, the window is 0..MaxGraceWindow minutes.          *)

GraceScheduledTimes == {At(0, 9, 0), At(0, 9, 1) + 1}

GraceActualTimes ==
    (At(0, 9, 0) - (MaxGraceWindow + 1) * MinuteTicks)
        .. (At(0, 9, 0) + (MaxGraceWindow + 1) * MinuteTicks)

ApplyGracePeriod(scheduledTime, windowMinutes) ==
    /\ response' = [op |-> "applyGracePeriod", actualTime |-> now,
                    scheduledTime |-> scheduledTime,
                    windowMinutes |-> windowMinutes,
                    result |-> applyGracePeriodWithin(now, scheduledTime,
                                                      windowMinutes)]
    /\ UNCHANGED <<schedules, timeEntries, payPeriods, now, requests, payslips>>

GraceInit ==
    /\ schedules = <<>>
    /\ timeEntries = <<>>
    /\ payPeriods = <<>>
    /\ payslips = <<>>
    /\ now \in GraceActualTimes
    /\ requests = NoRequests
    /\ response = NoResponse

GraceNext ==
    \E scheduledTime \in GraceScheduledTimes, windowMinutes \in 0..MaxGraceWindow :
        ApplyGracePeriod(scheduledTime, windowMinutes)

SpecGrace == GraceInit /\ [][GraceNext]_vars

-----------------------------------------------------------------------------
(* Concurrent clockIn requests.  clockIn awaits three database calls in    *)
(* turn (the shift lookup, the open-entry query, the insert) with no       *)
(* transaction around them and no constraint on time_entries, so the calls *)
(* of two requests interleave.                                             *)

\* clockIn up to the open-entry query: the shift lookup and the tests on it
ClockInStart(p, employeeId, scheduleId) ==
    LET req == [op |-> "clockIn", employeeId |-> employeeId,
                scheduleId |-> scheduleId]
        failed(error) == req @@ [pc |-> "done", ok |-> FALSE, error |-> error]
    IN  /\ requests[p].pc = "idle"
        /\ requests' = [requests EXCEPT ![p] =
               IF scheduleId \notin 1..Len(schedules)
               THEN failed("SCHEDULE_NOT_FOUND")
               ELSE IF ~schedules[scheduleId].isActive
               THEN failed("Schedule is inactive")
               ELSE IF schedules[scheduleId].employeeId # employeeId
               THEN failed("Employee ID does not match schedule")
               ELSE IF now < schedules[scheduleId].startTime
                               - clockInWindowMinutes * MinuteTicks
               THEN failed("TOO_EARLY")
               ELSE req @@ [pc |-> "findOpenEntry",
                            schedule |-> schedules[scheduleId]]]
        /\ UNCHANGED <<schedules, timeEntries, payPeriods, now, response, payslips>>

\* prisma.timeEntry.findFirst and what follows it up to the insert: the
\* clock-in time is read here
ClockInFindOpenEntry(p) ==
    LET req == requests[p]
        existingTimeEntry ==
            \E te \in SeqRange(timeEntries) :
                /\ te.employeeId = req.employeeId
                /\ te.scheduleId = req.scheduleId
                /\ te.clockOutTime = None
    IN  /\ req.pc = "findOpenEntry"
        /\ requests' = [requests EXCEPT ![p] =
               IF existingTimeEntry
               THEN [req EXCEPT !.pc = "done"]
                    @@ [ok |-> FALSE, error |-> "ALREADY_CLOCKED_IN"]
               ELSE [req EXCEPT !.pc = "create"]
                    @@ [actualClockInTime |-> now]]
        /\ UNCHANGED <<schedules, timeEntries, payPeriods, now, response, payslips>>

\* prisma.timeEntry.create
ClockInCreate(p) ==
    LET req == requests[p]
    IN  /\ req.pc = "create"
        /\ timeEntries' = Append(timeEntries,
               newTimeEntry(req.schedule, timeEntries, req.employeeId,
                            req.scheduleId, req.actualClockInTime))
        /\ requests' = [requests EXCEPT ![p] =
               [req EXCEPT !.pc = "done"]
               @@ [ok |-> TRUE, error |-> "", id |-> Len(timeEntries) + 1]]
        /\ UNCHANGED <<schedules, payPeriods, now, response, payslips>>

ClockRaceInit ==
    /\ schedules = ClockRoster
    /\ timeEntries = <<>>
    /\ payPeriods = ClockPayPeriods
    /\ payslips = <<>>
    /\ now = EarliestOf(ClockTimes)
    /\ requests = [p \in Procs |-> IdleRequest]
    /\ response = NoResponse

\* each of the two requests names any employee and shift
ClockRaceNext ==
    \/ \E t \in ClockTimes : Tick(t)
    \/ \E p \in Procs, e \in Employees, sid \in 1..(Len(schedules) + 1) :
           ClockInStart(p, e, sid)
    \/ \E p \in Procs : ClockInFindOpenEntry(p)
    \/ \E p \in Procs : ClockInCreate(p)

SpecClockRace == ClockRaceInit /\ [][ClockRaceNext]_vars

-----------------------------------------------------------------------------
(* Concurrent pay period creation.  createPayPeriod awaits two database    *)
(* calls (findFirst on the dates, then create) with no transaction around  *)
(* them; createCompletedPeriodPayPeriod and generateUpcomingPeriods call   *)
(* createPayPeriod, the latter once per iteration of its loop.  A request  *)
(* holds the period it is creating, the loop index i and the instant the   *)
(* request read the clock.                                                 *)

periodRequest(op, pc, info, i, monthsAhead, startedAt) ==
    [op |-> op, pc |-> pc, year |-> info.year, month |-> info.month,
     period |-> info.period, i |-> i, monthsAhead |-> monthsAhead,
     startedAt |-> startedAt, ok |-> FALSE, error |-> ""]

requestDone(req, ok, error) ==
    [req EXCEPT !.pc = "done", !.ok = ok, !.error = error]

\* generateUpcomingPeriods after iteration req.i: the next iteration, or the
\* end of the loop
nextUpcoming(req) ==
    IF req.i + 1 < req.monthsAhead * 2
    THEN LET info == upcomingPeriod(req.startedAt, req.i + 1)
         IN  [req EXCEPT !.pc = "find", !.i = @ + 1, !.year = info.year,
                         !.month = info.month, !.period = info.period]
    ELSE requestDone(req, TRUE, "")

StartCreatePayPeriod(p, year, month, period) ==
    /\ requests[p].pc = "idle"
    /\ requests' = [requests EXCEPT ![p] =
           periodRequest("createPayPeriod", "find",
                         [year |-> year, month |-> month, period |-> period],
                         0, 0, now)]
    /\ UNCHANGED <<schedules, timeEntries, payPeriods, now, response, payslips>>

StartCreateCompletedPeriod(p) ==
    LET generationCheck == canGenerateCompletedPeriod(now)
        noInfo == [year |-> 0, month |-> 0, period |-> ""]
    IN  /\ requests[p].pc = "idle"
        /\ requests' = [requests EXCEPT ![p] =
               IF generationCheck.canGenerate
               THEN periodRequest("createCompletedPeriodPayPeriod", "find",
                                  generationCheck.periodInfo, 0, 0, now)
               ELSE requestDone(
                        periodRequest("createCompletedPeriodPayPeriod", "idle",
                                      noInfo, 0, 0, now),
                        FALSE, generationCheck.reason)]
        /\ UNCHANGED <<schedules, timeEntries, payPeriods, now, response, payslips>>

StartGenerateUpcomingPeriods(p, monthsAhead) ==
    /\ requests[p].pc = "idle"
    /\ requests' = [requests EXCEPT ![p] =
           periodRequest("generateUpcomingPeriods", "find",
                         upcomingPeriod(now, 0), 0, monthsAhead, now)]
    /\ UNCHANGED <<schedules, timeEntries, payPeriods, now, response, payslips>>

\* createPayPeriod: prisma.payPeriod.findFirst and the throw after it
PayPeriodFind(p) ==
    LET req == requests[p]
        dates == generatePayPeriodDates(req.year, req.month, req.period)
    IN  /\ req.pc = "find"
        /\ requests' = [requests EXCEPT ![p] =
               IF ~findPayPeriodByDates(payPeriods, dates)
               THEN [req EXCEPT !.pc = "insert"]
               ELSE IF req.op = "generateUpcomingPeriods"
               THEN nextUpcoming(req)
               ELSE IF req.op = "createCompletedPeriodPayPeriod"
               THEN requestDone(req, FALSE, completedPeriodError("already exists"))
               ELSE requestDone(req, FALSE, "already exists")]
        /\ UNCHANGED <<schedules, timeEntries, payPeriods, now, response, payslips>>

\* createPayPeriod: prisma.payPeriod.create, atomic with the unique index
PayPeriodInsert(p) ==
    LET req == requests[p]
        dates == generatePayPeriodDates(req.year, req.month, req.period)
    IN  /\ req.pc = "insert"
        /\ \E r \in {insertPayPeriod(payPeriods, dates)} :
               /\ payPeriods' = r.table
               /\ requests' = [requests EXCEPT ![p] =
                      IF ~r.ok
                      THEN requestDone(req, FALSE, completedPeriodError(r.error))
                      ELSE IF req.op = "generateUpcomingPeriods"
                      THEN nextUpcoming(req)
                      ELSE requestDone(req, TRUE, "")]
        /\ UNCHANGED <<schedules, timeEntries, now, response, payslips>>

\* requests of createPayPeriod
PayPeriodRequests ==
    {[year |-> 2025, month |-> 1, period |-> "A"],
     [year |-> 2024, month |-> 12, period |-> "B"]}

\* the last instant of 31 December 2024, the first of 1 January 2025 and of
\* 16 January 2025
PeriodRaceTimes ==
    {endOfDay(dayIndex(2024, 12, 31)), At(dayIndex(2025, 1, 1), 0, 0),
     At(dayIndex(2025, 1, 16), 0, 0)}

PeriodRaceInit ==
    /\ schedules = <<>>
    /\ timeEntries = <<>>
    /\ payPeriods = <<>>
    /\ payslips = <<>>
    /\ now = EarliestOf(PeriodRaceTimes)
    /\ requests = [p \in Procs |-> IdleRequest]
    /\ response = NoResponse

PeriodRaceNext ==
    \/ \E t \in PeriodRaceTimes : Tick(t)
    \/ \E p \in Procs, info \in PayPeriodRequests :
           StartCreatePayPeriod(p, info.year, info.month, info.period)
    \/ \E p \in Procs : StartCreateCompletedPeriod(p)
    \/ \E p \in Procs, monthsAhead \in 1..MaxMonthsAhead :
           StartGenerateUpcomingPeriods(p, monthsAhead)
    \/ \E p \in Procs : PayPeriodFind(p)
    \/ \E p \in Procs : PayPeriodInsert(p)

SpecPeriodRace == PeriodRaceInit /\ [][PeriodRaceNext]_vars

-----------------------------------------------------------------------------
(* canGenerateCompletedPeriod and createCompletedPeriodPayPeriod over the  *)
(* days around a turn of the year and around the end of a leap February,   *)
(* each request handled without interruption.                              *)

CompletedPeriodYears == {2024, 2025}

\* 28 February .. 2 March 2024 and 30 December 2024 .. 2 February 2025
CompletedPeriodDays ==
    (dayIndex(2024, 2, 28)..dayIndex(2024, 3, 2))
        \cup (dayIndex(2024, 12, 30)..dayIndex(2025, 2, 2))

\* the first and the last instant of each of the days
CompletedPeriodTimes ==
    {At(d, 0, 0) : d \in CompletedPeriodDays}
        \cup {endOfDay(d) : d \in CompletedPeriodDays}

CanGenerateCompletedPeriod ==
    /\ response' = [op |-> "canGenerateCompletedPeriod",
                    result |-> canGenerateCompletedPeriod(now)]
    /\ UNCHANGED <<schedules, timeEntries, payPeriods, now, requests, payslips>>

CreateCompletedPeriodPayPeriod ==
    \E r \in {createCompletedPeriodPayPeriod(payPeriods, now)} :
        /\ payPeriods' = r.table
        /\ response' = [op |-> "createCompletedPeriodPayPeriod", ok |-> r.ok,
                        error |-> r.error]
        /\ UNCHANGED <<schedules, timeEntries, now, requests, payslips>>

CompletedPeriodInit ==
    /\ schedules = <<>>
    /\ timeEntries = <<>>
    /\ payPeriods = <<>>
    /\ payslips = <<>>
    /\ now = EarliestOf(CompletedPeriodTimes)
    /\ requests = [p \in Procs |-> IdleRequest]
    /\ response = NoResponse

CompletedPeriodNext ==
    \/ \E t \in CompletedPeriodTimes : Tick(t)
    \/ CanGenerateCompletedPeriod
    \/ CreateCompletedPeriodPayPeriod

SpecCompletedPeriod == CompletedPeriodInit /\ [][CompletedPeriodNext]_vars

-----------------------------------------------------------------------------
(* The pay period and payslip operations as actions over one pay period,   *)
(* January A of the epoch year, with no time entries: e1 is salaried, e2   *)
(* is paid by the hour.                                                    *)

PayslipPayPeriods == createPayPeriod(<<>>, epochYear, 1, "A").table

\* ids a request names: the pay period and an id of no row
PayslipPeriodIds == 1..(Len(PayslipPayPeriods) + 1)

\* a pay date an update moves the period to
PayslipPayDates == {None, At(dayIndex(epochYear, 1, 21), 0, 0)}

\* deductions of an updatePayslip request, in cents
PayslipDeductions == {None, 10000}

\* uploaded files: one of e1, one of the manager e2, one without a name part
PayslipFiles ==
    {[originalname |-> <<"Jan A", <<"John", "Doe">>>>, filename |-> "f1"],
     [originalname |-> <<"Jan A", <<"Mary", "Major">>>>, filename |-> "f2"],
     [originalname |-> <<"Jan A">>, filename |-> "f3"]}

UpdatePayPeriod(id, payDate, status) ==
    \E r \in {updatePayPeriod(payPeriods, id, payDate, status)} :
        /\ payPeriods' = r.periods
        /\ response' = [op |-> "updatePayPeriod", ok |-> r.ok, error |-> r.error]
        /\ UNCHANGED <<schedules, timeEntries, payslips, now, requests>>

DeletePayPeriod(id) ==
    \E r \in {deletePayPeriod(payPeriods, payslips, id)} :
        /\ payPeriods' = r.periods
        /\ response' = [op |-> "deletePayPeriod", ok |-> r.ok, error |-> r.error]
        /\ UNCHANGED <<schedules, timeEntries, payslips, now, requests>>

GeneratePayslips(payPeriodId, employeeIds, recalculate, failing) ==
    \E r \in {generatePayslips(schedules, timeEntries, payPeriods, payslips,
                  payPeriodId, employeeIds, recalculate, failing)} :
        /\ Len(r.slips) <= MaxPayslips
        /\ payPeriods' = r.periods
        /\ payslips' = r.slips
        /\ response' = [op |-> "generatePayslips", ok |-> r.ok, error |-> r.error]
        /\ UNCHANGED <<schedules, timeEntries, now, requests>>

UpdatePayslip(id, deductions) ==
    \E r \in {updatePayslip(payslips, id, deductions)} :
        /\ payslips' = r.slips
        /\ response' = [op |-> "updatePayslip", ok |-> r.ok, error |-> r.error]
        /\ UNCHANGED <<schedules, timeEntries, payPeriods, now, requests>>

DeletePayslip(id) ==
    \E r \in {deletePayslip(payPeriods, payslips, id)} :
        /\ payslips' = r.slips
        /\ response' = [op |-> "deletePayslip", ok |-> r.ok, error |-> r.error]
        /\ UNCHANGED <<schedules, timeEntries, payPeriods, now, requests>>

MarkPayPeriodAsPaid(payPeriodId) ==
    \E r \in {markPayPeriodAsPaid(payPeriods, payslips, payPeriodId)} :
        /\ payPeriods' = r.periods
        /\ response' = [op |-> "markPayPeriodAsPaid", ok |-> r.ok,
                        error |-> r.error]
        /\ UNCHANGED <<schedules, timeEntries, payslips, now, requests>>

BulkUploadPayslipFiles(payPeriodId, files, fileOnlyAccepted) ==
    \E r \in {bulkUploadPayslipFiles(payPeriods, payslips, payPeriodId, files,
                                     fileOnlyAccepted)} :
        /\ Len(r.slips) <= MaxPayslips
        /\ payslips' = r.slips
        /\ response' = [op |-> "bulkUploadPayslipFiles", success |-> r.success,
                        failed |-> r.failed]
        /\ UNCHANGED <<schedules, timeEntries, payPeriods, now, requests>>

PayslipInit ==
    /\ schedules = <<>>
    /\ timeEntries = <<>>
    /\ payPeriods = PayslipPayPeriods
    /\ payslips = <<>>
    /\ now = At(dayIndex(epochYear, 1, 16), 0, 0)
    /\ requests = NoRequests
    /\ response = NoResponse

PayslipNext ==
    \/ \E id \in PayslipPeriodIds, payDate \in PayslipPayDates,
          status \in {NoStatus} \cup PayPeriodStatuses :
           UpdatePayPeriod(id, payDate, status)
    \/ \E id \in PayslipPeriodIds : DeletePayPeriod(id)
    \/ \E id \in PayslipPeriodIds, employeeIds \in {NoEmployeeIds, employeeIdsOf({"e1"})},
          recalculate \in BOOLEAN, failing \in SUBSET Employees :
           GeneratePayslips(id, employeeIds, recalculate, failing)
    \/ \E id \in 1..(Len(payslips) + 1), deductions \in PayslipDeductions :
           UpdatePayslip(id, deductions)
    \/ \E id \in 1..(Len(payslips) + 1) : DeletePayslip(id)
    \/ \E id \in PayslipPeriodIds : MarkPayPeriodAsPaid(id)
    \/ \E id \in PayslipPeriodIds, file \in PayslipFiles,
          fileOnlyAccepted \in BOOLEAN :
           BulkUploadPayslipFiles(id, <<file>>, fileOnlyAccepted)

SpecPayslips == PayslipInit /\ [][PayslipNext]_vars

-----------------------------------------------------------------------------
(* calculateBatchPayroll over the time entries of one day: a shift of e1   *)
(* and a shift of e2 inside pay period 1; an administrator clocks the      *)
(* entries out.                                                            *)

BatchRoster ==
    <<scheduleRow(1, "e1", At(0, 9, 0), At(0, 18, 0), TRUE),
      scheduleRow(2, "e2", At(0, 9, 0), At(0, 18, 0), TRUE)>>

BatchTimes == {At(0, 9, 0), At(0, 18, 0)}

\* the employeeIds of the requests
BatchEmployeeIds ==
    {NoEmployeeIds, employeeIdsOf({"e1"}), employeeIdsOf({"e1", "e2"}),
     employeeIdsOf({"a1"})}

\* the response echoes the request next to the value returned
CalculateBatchPayroll(payPeriodId, employeeIds, failing) ==
    \E r \in {calculateBatchPayroll(schedules, timeEntries, payPeriods,
                                    payPeriodId, employeeIds, failing)} :
        /\ response' = [op |-> "calculateBatchPayroll",
                        request |-> [payPeriodId |-> payPeriodId,
                                     employeeIds |-> employeeIds,
                                     failing |-> failing]] @@ r
        /\ UNCHANGED <<schedules, timeEntries, payPeriods, payslips, now,
                       requests>>

BatchInit ==
    /\ schedules = BatchRoster
    /\ timeEntries = <<>>
    /\ payPeriods = ClockPayPeriods
    /\ payslips = <<>>
    /\ now = EarliestOf(BatchTimes)
    /\ requests = NoRequests
    /\ response = NoResponse

BatchNext ==
    \/ \E t \in BatchTimes : Tick(t)
    \/ \E e \in Employees, sid \in 1..Len(schedules) :
           Len(timeEntries) < MaxEntries /\ ClockIn(e, sid)
    \/ \E id \in TimeEntryIds : ClockOut(id, "a1")
    \/ \E pid \in PayPeriodIds, employeeIds \in BatchEmployeeIds,
          failing \in SUBSET Employees :
           CalculateBatchPayroll(pid, employeeIds, failing)

SpecBatch == BatchInit /\ [][BatchNext]_vars

-----------------------------------------------------------------------------
(* The pay amounts of calculateEmployeePayroll tabulated over total hours  *)
(* (hundredths of an hour) and pay rates (cents an hour).                  *)

\* quarter hours up to two hours, the salaried default and 80 hours
PayRegularHours == {25 * k : k \in 0..8} \cup {salaryDefaultHours * 100, 8000}

PayOvertimeHours == {0, 25, 50, 500}

PayRates == {2000, 2033, 2100, 3000}

\* the response echoes the inputs next to the amounts returned
PayAmounts(totalRegularHours, totalOvertimeHours, payRate) ==
    /\ response' = [op |-> "payAmounts",
                    totalRegularHours |-> totalRegularHours,
                    totalOvertimeHours |-> totalOvertimeHours,
                    payRate |-> payRate]
                       @@ payAmounts(totalRegularHours, totalOvertimeHours,
                                     payRate)
    /\ UNCHANGED <<schedules, timeEntries, payPeriods, payslips, now, requests>>

PayInit ==
    /\ schedules = <<>>
    /\ timeEntries = <<>>
    /\ payPeriods = <<>>
    /\ payslips = <<>>
    /\ now = 0
    /\ requests = NoRequests
    /\ response = NoResponse

PayNext ==
    \E h \in PayRegularHours, o \in PayOvertimeHours, r \in PayRates :
        PayAmounts(h, o, r)

SpecPay == PayInit /\ [][PayNext]_vars

-----------------------------------------------------------------------------
(* Specification of the preconditions of clockIn and clockOut: one shift   *)
(* each of two employees, which deleteSchedule deactivates, requests by    *)
(* every user on every id, at the instants around the opening of the       *)
(* clock-in window, so that several preconditions fail at once.            *)

\* e1 and e2 each work 09:00-17:00
GuardRoster ==
    <<scheduleRow(1, "e1", At(0, 9, 0), At(0, 17, 0), TRUE),
      scheduleRow(2, "e2", At(0, 9, 0), At(0, 17, 0), TRUE)>>

\* one tick before the clock-in window opens, its opening (exactly
\* clockInWindowMinutes before the start), the start and the end
GuardTimes ==
    LET shift == GuardRoster[1]
    IN  {shift.startTime - clockInWindowMinutes * MinuteTicks - 1,
         shift.startTime - clockInWindowMinutes * MinuteTicks,
         shift.startTime,
         shift.endTime}

GuardInit ==
    /\ schedules = GuardRoster
    /\ timeEntries = <<>>
    /\ payPeriods = ClockPayPeriods
    /\ payslips = <<>>
    /\ now = EarliestOf(GuardTimes)
    /\ requests = NoRequests
    /\ response = NoResponse

GuardNext ==
    \/ \E t \in GuardTimes : Tick(t)
    \/ \E e \in Employees, sid \in 1..(Len(schedules) + 1) :
           Len(timeEntries) < MaxEntries /\ ClockIn(e, sid)
    \/ \E id \in TimeEntryIds, u \in UserIds : ClockOut(id, u)
    \/ \E id \in ScheduleIds : DeleteSchedule(id)

SpecGuard == GuardInit /\ [][GuardNext]_vars

-----------------------------------------------------------------------------
(* generatePayslips in the steps of its awaited calls: the pay period      *)
(* lookup, the count of existing payslips, the batch calculation, one      *)
(* deleteMany / create per employee, the status update.  The requests of   *)
(* two callers interleave with each other and with markPayPeriodAsPaid,    *)
(* calculateBatchPayroll and validatePayrollCalculation.                   *)

\* PayrollCalculationService.validatePayrollCalculation: a warning is its
\* kind and the number of rows it counts
validatePayrollCalculation(table, entries, periods, payPeriodId) ==
    IF ~hasPayPeriod(periods, payPeriodId)
    THEN [isValid |-> FALSE, errors |-> <<"Pay period not found">>,
          warnings |-> <<>>]
    ELSE
    LET payPeriod == periods[payPeriodId]
        errors == IF payPeriod.status = "PAID"
                  THEN <<"Cannot calculate payroll for a paid period">>
                  ELSE <<>>
        employeesWithoutPay ==
            {u \in SeqRange(UserRows) :
                /\ userStatusOf(u) = "ACTIVE"
                /\ (payRateOf(u) = None \/ payTypeOf(u) = NoPayType)}
        incompleteTimeEntries ==
            {i \in 1..Len(entries) :
                /\ entries[i].clockOutTime = None
                /\ table[entries[i].scheduleId].startTime >= payPeriod.startDate
                /\ table[entries[i].scheduleId].startTime <= payPeriod.endDate}
        payWarning ==
            IF Cardinality(employeesWithoutPay) > 0
            THEN <<[kind |-> "missing pay configuration",
                    count |-> Cardinality(employeesWithoutPay)]>>
            ELSE <<>>
        entryWarning ==
            IF Cardinality(incompleteTimeEntries) > 0
            THEN <<[kind |-> "incomplete time entries",
                    count |-> Cardinality(incompleteTimeEntries)]>>
            ELSE <<>>
    IN  [isValid |-> Len(errors) = 0, errors |-> errors,
         warnings |-> payWarning \o entryWarning]

ValidatePayrollCalculation(payPeriodId) ==
    /\ response' = [op |-> "validatePayrollCalculation",
                    payPeriodId |-> payPeriodId]
                   @@ validatePayrollCalculation(schedules, timeEntries,
                                                 payPeriods, payPeriodId)
    /\ UNCHANGED <<schedules, timeEntries, payPeriods, payslips, now, requests>>

\* variant writing the status with every payslip, to probe the place of the
\* status update
payslipLoopStepWritingStatus(periods, slips, payPeriodId, calc, recalculate) ==
    LET cleared == IF recalculate
                   THEN deletePayslipsOf(slips, calc.employeeId, payPeriodId)
                   ELSE slips
    IN  [periods |-> [periods EXCEPT ![payPeriodId].status = "PROCESSING"],
         slips |-> IF payslipInsertRejected(periods, cleared, calc.employeeId,
                                            payPeriodId)
                   THEN cleared
                   ELSE Append(cleared,
                               payslipRow(Len(cleared) + 1, calc.employeeId,
                                          payPeriodId, calc, None))]

\* one turn of the for loop of generatePayslips: deleteMany when
\* recalculating, then create; a rejected create is logged and skipped
payslipLoopStep(periods, slips, payPeriodId, calc, recalculate) ==
    LET cleared == IF recalculate
                   THEN deletePayslipsOf(slips, calc.employeeId, payPeriodId)
                   ELSE slips
    IN  [periods |-> periods,
         slips |-> IF payslipInsertRejected(periods, cleared, calc.employeeId,
                                            payPeriodId)
                   THEN cleared
                   ELSE Append(cleared,
                               payslipRow(Len(cleared) + 1, calc.employeeId,
                                          payPeriodId, calc, None))]

\* generatePayslips up to the tests on the pay period
GenerateStart(p, payPeriodId, employeeIds, recalculate, failing) ==
    LET req == [op |-> "generatePayslips", payPeriodId |-> payPeriodId,
                employeeIds |-> employeeIds, recalculate |-> recalculate,
                failing |-> failing]
        failed(error) == req @@ [pc |-> "done", ok |-> FALSE, error |-> error]
    IN  /\ requests[p].pc = "idle"
        /\ requests' = [requests EXCEPT ![p] =
               IF ~hasPayPeriod(payPeriods, payPeriodId)
               THEN failed("Pay period not found")
               ELSE IF payPeriods[payPeriodId].status = "PAID"
               THEN failed("Cannot generate payslips for a paid period")
               ELSE req @@ [pc |-> IF recalculate THEN "calculate"
                                   ELSE "countExisting"]]
        /\ UNCHANGED <<schedules, timeEntries, payPeriods, payslips, now, response>>

\* prisma.payslip.count of the existing payslips
GenerateCountExisting(p) ==
    LET req == requests[p]
        existingPayslips ==
            Cardinality({r \in livePayslips(payslips) :
                /\ r.payPeriodId = req.payPeriodId
                /\ req.employeeIds.given => r.employeeId \in req.employeeIds.ids})
    IN  /\ req.pc = "countExisting"
        /\ requests' = [requests EXCEPT ![p] =
               IF existingPayslips > 0
               THEN [req EXCEPT !.pc = "done"]
                    @@ [ok |-> FALSE,
                        error |-> "Payslips already exist for this period"]
               ELSE [req EXCEPT !.pc = "calculate"]]
        /\ UNCHANGED <<schedules, timeEntries, payPeriods, payslips, now, response>>

\* PayrollCalculationService.calculateBatchPayroll and the test on its result
GenerateCalculate(p) ==
    LET req == requests[p]
        failed(error) == [req EXCEPT !.pc = "done"]
                         @@ [ok |-> FALSE, error |-> error]
    IN  /\ req.pc = "calculate"
        /\ \E payrollCalculation \in
                 {calculateBatchPayroll(schedules, timeEntries, payPeriods,
                      req.payPeriodId, req.employeeIds, req.failing)} :
               requests' = [requests EXCEPT ![p] =
                   IF ~payrollCalculation.ok
                   THEN failed(payrollCalculation.error)
                   ELSE IF Len(payrollCalculation.result.employees) = 0
                   THEN failed("No employees eligible for payroll generation")
                   ELSE [req EXCEPT !.pc = "loop"]
                        @@ [remaining |-> payrollCalculation.result.employees]]
        /\ UNCHANGED <<schedules, timeEntries, payPeriods, payslips, now, response>>

\* one employee of the for loop
GenerateLoop(p) ==
    LET req == requests[p]
    IN  /\ req.pc = "loop"
        /\ \E r \in {payslipLoopStep(payPeriods, payslips, req.payPeriodId,
                                     Head(req.remaining), req.recalculate)} :
               /\ Len(r.slips) <= MaxGeneratedPayslips
               /\ payPeriods' = r.periods
               /\ payslips' = r.slips
        /\ requests' = [requests EXCEPT ![p] =
               [req EXCEPT !.remaining = Tail(@),
                           !.pc = IF Tail(req.remaining) = <<>>
                                  THEN "updateStatus" ELSE "loop"]]
        /\ UNCHANGED <<schedules, timeEntries, now, response>>

\* prisma.payPeriod.update({ data: { status: 'PROCESSING' } }) and the return
GenerateUpdateStatus(p) ==
    LET req == requests[p]
    IN  /\ req.pc = "updateStatus"
        /\ payPeriods' = [payPeriods EXCEPT ![req.payPeriodId].status = "PROCESSING"]
        /\ requests' = [requests EXCEPT ![p] =
               [req EXCEPT !.pc = "done"] @@ [ok |-> TRUE, error |-> ""]]
        /\ UNCHANGED <<schedules, timeEntries, payslips, now, response>>

\* the calculations that throw in a batch
GenerateFailing == {{}, {"e2"}, Employees}

GenerateInit ==
    /\ schedules = <<>>
    /\ timeEntries = <<>>
    /\ payPeriods = PayslipPayPeriods
    /\ payslips = <<>>
    /\ now = At(dayIndex(epochYear, 1, 16), 0, 0)
    /\ requests = [p \in Procs |-> IdleRequest]
    /\ response = NoResponse

GenerateNext ==
    \/ \E p \in Procs, id \in PayslipPeriodIds,
          employeeIds \in {NoEmployeeIds, employeeIdsOf({"e1"})},
          recalculate \in BOOLEAN, failing \in GenerateFailing :
           GenerateStart(p, id, employeeIds, recalculate, failing)
    \/ \E p \in Procs : GenerateCountExisting(p)
    \/ \E p \in Procs : GenerateCalculate(p)
    \/ \E p \in Procs : GenerateLoop(p)
    \/ \E p \in Procs : GenerateUpdateStatus(p)
    \/ \E id \in PayslipPeriodIds : MarkPayPeriodAsPaid(id)
    \/ \E id \in PayslipPeriodIds : CalculateBatchPayroll(id, NoEmployeeIds, {})
    \/ \E id \in PayslipPeriodIds : ValidatePayrollCalculation(id)

SpecGenerate == GenerateInit /\ [][GenerateNext]_vars

-----------------------------------------------------------------------------
(* Concurrent clockOut requests.  clockOut awaits two database calls (the  *)
(* findUnique of the entry and the update) with no transaction around them *)
(* and no condition on the update other than the id, so the calls of two   *)
(* requests interleave.                                                    *)

\* the columns the update of clockOut sets
clockOutData(table, existingTimeEntry, t) ==
    LET written == clockedOut(table, existingTimeEntry, t)
    IN  [f \in {"clockOutTime", "adjustedEndTime", "gracePeriodApplied",
                "totalHours", "overtimeHours", "status"} |-> written[f]]

\* clockOut up to the update: the entry is read and tested, the clock-out
\* time is read and the columns are computed from the entry as read
ClockOutRead(p, timeEntryId, currentUserId) ==
    LET req == [op |-> "clockOut", timeEntryId |-> timeEntryId,
                currentUserId |-> currentUserId]
        failed(error) == req @@ [pc |-> "done", ok |-> FALSE, error |-> error]
    IN  /\ requests[p].pc = "idle"
        /\ requests' = [requests EXCEPT ![p] =
               IF timeEntryId \notin 1..Len(timeEntries)
               THEN failed("TIME_ENTRY_NOT_FOUND")
               ELSE IF /\ roleOf(currentUserId) = "EMPLOYEE"
                       /\ timeEntries[timeEntryId].employeeId # currentUserId
               THEN failed("You can only clock out your own time entries")
               ELSE IF timeEntries[timeEntryId].clockOutTime # None
               THEN failed("Already clocked out for this shift")
               ELSE req @@ [pc |-> "update",
                            data |-> clockOutData(schedules,
                                         timeEntries[timeEntryId], now)]]
        /\ UNCHANGED <<schedules, timeEntries, payPeriods, now, response, payslips>>

\* prisma.timeEntry.update({ where: { id: timeEntryId }, data })
ClockOutUpdate(p) ==
    LET req == requests[p]
    IN  /\ req.pc = "update"
        /\ timeEntries' = [timeEntries EXCEPT ![req.timeEntryId] =
               [f \in DOMAIN @ |-> IF f \in DOMAIN req.data THEN req.data[f]
                                   ELSE @[f]]]
        /\ requests' = [requests EXCEPT ![p] =
               [req EXCEPT !.pc = "done"] @@ [ok |-> TRUE, error |-> ""]]
        /\ UNCHANGED <<schedules, payPeriods, now, response, payslips>>

ClockOutRaceInit ==
    /\ schedules = HoursRoster
    /\ timeEntries = <<>>
    /\ payPeriods = ClockPayPeriods
    /\ payslips = <<>>
    /\ now = EarliestOf(HoursTimes)
    /\ requests = [p \in Procs |-> IdleRequest]
    /\ response = NoResponse

\* the employee clocks in once; each of the two clockOut requests names any
\* entry and comes from any user
ClockOutRaceNext ==
    \/ \E t \in HoursTimes : Tick(t)
    \/ \E e \in Employees, sid \in 1..Len(schedules) :
           timeEntries = <<>> /\ ClockIn(e, sid)
    \/ \E p \in Procs, id \in TimeEntryIds, u \in UserIds : ClockOutRead(p, id, u)
    \/ \E p \in Procs : ClockOutUpdate(p)

SpecClockOutRace == ClockOutRaceInit /\ [][ClockOutRaceNext]_vars

-----------------------------------------------------------------------------
(* Properties of the schedule operations *)

\* [s1,e1) and [s2,e2) share an instant
intervalsIntersect(s1, e1, s2, e2) == Max(s1, s2) < Min(e1, e2)

\* C1: no two active shifts of one employee overlap under half-open
\* [start,end) semantics, whatever sequence of createSchedule,
\* bulkCreateSchedules, updateSchedule and deleteSchedule calls was made.
NoActiveOverlap ==
    \A i \in 1..Len(schedules), j \in 1..Len(schedules) :
        (/\ i # j
         /\ schedules[i].employeeId = schedules[j].employeeId
         /\ schedules[i].isActive
         /\ schedules[j].isActive)
        => ~intervalsIntersect(schedules[i].startTime, schedules[i].endTime,
                               schedules[j].startTime, schedules[j].endTime)

\* the shifts the half-open test start < e2 /\ s2 < end selects
halfOpenConflicts(table, employeeId, startTime, endTime, excludeScheduleId) ==
    {s \in SeqRange(table) :
        /\ s.employeeId = employeeId
        /\ s.isActive
        /\ s.id # excludeScheduleId
        /\ startTime < s.endTime
        /\ s.startTime < endTime}

\* C2: checkScheduleConflicts reports exactly the active shifts [s2,e2) of
\* the employee, other than the excluded one, with start < e2 and s2 < end;
\* hasConflict is true exactly when there is one.
ConflictsAreHalfOpen ==
    response.op = "checkScheduleConflicts" =>
        LET expected == halfOpenConflicts(schedules, response.employeeId,
                            response.startTime, response.endTime,
                            response.excludeScheduleId)
        IN  /\ response.result.hasConflict = (expected # {})
            /\ {c.id : c \in response.result.conflictingSchedules}
                   = {s.id : s \in expected}

\* The same statement for requests and stored shifts whose start is before
\* their end
ConflictsAreHalfOpenOnProperIntervals ==
    (/\ response.op = "checkScheduleConflicts"
     /\ response.startTime < response.endTime
     /\ \A s \in SeqRange(schedules) : s.startTime < s.endTime)
    => ConflictsAreHalfOpen

\* C5: of two concurrent createSchedule requests for one employee whose
\* times overlap and are not identical, at most one succeeds.
OverlappingCreatesExclude ==
    \A p \in Procs, q \in Procs :
        (/\ p # q
         /\ requests[p].pc = "done"
         /\ requests[q].pc = "done"
         /\ requests[p].employeeId = requests[q].employeeId
         /\ <<requests[p].startTime, requests[p].endTime>>
                # <<requests[q].startTime, requests[q].endTime>>
         /\ intervalsIntersect(requests[p].startTime, requests[p].endTime,
                               requests[q].startTime, requests[q].endTime))
        => ~(requests[p].ok /\ requests[q].ok)

-----------------------------------------------------------------------------
(* Properties of the time clock operations *)

openEntriesOf(employeeId) ==
    {te \in SeqRange(timeEntries) :
        te.employeeId = employeeId /\ te.clockOutTime = None}

\* C3: after any sequence of clockIn, clockOut and adjustTimeEntry, every
\* employee has at most one time entry whose clockOutTime is null, also
\* when the employee clocks in on several shifts.
AtMostOneOpenEntryPerEmployee ==
    \A e \in Employees : Cardinality(openEntriesOf(e)) <= 1

\* C4: two concurrent clockIn requests for the same employee and shift never
\* leave two open entries for that (employee, shift), and at most one of
\* them creates an entry.
AtMostOneOpenEntryPerShift ==
    /\ \A i \in 1..Len(timeEntries), j \in 1..Len(timeEntries) :
           (/\ i # j
            /\ timeEntries[i].employeeId = timeEntries[j].employeeId
            /\ timeEntries[i].scheduleId = timeEntries[j].scheduleId)
           => ~(/\ timeEntries[i].clockOutTime = None
                /\ timeEntries[j].clockOutTime = None)
    /\ \A p \in Procs, q \in Procs :
           (/\ p # q
            /\ requests[p].pc = "done"
            /\ requests[q].pc = "done"
            /\ requests[p].employeeId = requests[q].employeeId
            /\ requests[p].scheduleId = requests[q].scheduleId)
           => ~(requests[p].ok /\ requests[q].ok)

statusMoves ==
    {<<"CLOCKED_IN", "CLOCKED_OUT">>,
     <<"CLOCKED_OUT", "ADJUSTED">>,
     <<"ADJUSTED", "ADJUSTED">>}

\* one step of the status of every entry: a new entry starts CLOCKED_IN, an
\* existing entry keeps its status or moves along statusMoves
statusStep ==
    /\ Len(timeEntries') >= Len(timeEntries)
    /\ \A id \in 1..Len(timeEntries') :
           IF id > Len(timeEntries)
           THEN timeEntries'[id].status = "CLOCKED_IN"
           ELSE \/ timeEntries'[id].status = timeEntries[id].status
                \/ <<timeEntries[id].status, timeEntries'[id].status>> \in statusMoves

\* C6: a time entry's status changes only along NO_ENTRY -> CLOCKED_IN,
\* CLOCKED_IN -> CLOCKED_OUT, CLOCKED_OUT -> ADJUSTED and ADJUSTED ->
\* ADJUSTED; never CLOCKED_IN -> ADJUSTED, never ADJUSTED -> CLOCKED_OUT.
StatusLifecycle == [][statusStep]_vars

\* C7: an entry written by a successful clockOut has adjustedStartTime the
\* grace-corrected clock-in, adjustedEndTime the grace period applied once
\* to the raw clock-out time against the scheduled end, and totalHours equal
\* to max(0, payrollRound(adjustedEnd) - payrollRound(adjustedStart)).
ClockOutHoursFromGraceCorrected ==
    \A te \in SeqRange(timeEntries) :
        te.status = "CLOCKED_OUT" =>
            /\ te.adjustedStartTime =
                   applyGracePeriod(te.clockInTime, te.scheduledStartTime).adjustedTime
            /\ te.adjustedEndTime =
                   applyGracePeriod(te.clockOutTime, te.scheduledEndTime).adjustedTime
            /\ te.totalHours * HourTicks =
                   100 * Max(0, applyPayrollRounding(te.adjustedEndTime)
                                - applyPayrollRounding(te.adjustedStartTime))

\* a clocked-out entry whose clock-in and clock-out were both moved by the
\* grace period and then by the rounding
ClockOutHoursWitness ==
    \E te \in SeqRange(timeEntries) :
        /\ te.status = "CLOCKED_OUT"
        /\ te.adjustedStartTime # te.clockInTime
        /\ te.adjustedEndTime # te.clockOutTime
        /\ applyPayrollRounding(te.adjustedStartTime) # te.adjustedStartTime
        /\ applyPayrollRounding(te.adjustedEndTime) # te.adjustedEndTime
        /\ te.totalHours > 0

\* C8: every time entry whose hours were computed by clockOut or
\* adjustTimeEntry, and every result of calculateEmployeePayroll, has
\* totalHours = regularHours + overtimeHours with neither negative; for an
\* entry regularHours is min(totalHours, threshold) and overtimeHours is
\* max(0, totalHours - threshold).
HoursSplit ==
    /\ \A te \in SeqRange(timeEntries) :
           te.totalHours # None =>
               LET threshold == overtimeThresholdHours * 100
                   overtimeHours ==
                       IF te.overtimeHours = None THEN 0 ELSE te.overtimeHours
                   regularHours == te.totalHours - overtimeHours
               IN  /\ te.status \in {"CLOCKED_OUT", "ADJUSTED"}
                   /\ regularHours = Min(te.totalHours, threshold)
                   /\ overtimeHours = Max(0, te.totalHours - threshold)
                   /\ regularHours >= 0
                   /\ overtimeHours >= 0
    /\ (response.op = "calculateEmployeePayroll" /\ response.ok) =>
           /\ response.result.totalHours =
                  response.result.regularHours + response.result.overtimeHours
           /\ response.result.regularHours >= 0
           /\ response.result.overtimeHours >= 0

\* a payroll result summing an entry with overtime and an entry without
HoursSplitWitness ==
    /\ response.op = "calculateEmployeePayroll"
    /\ response.ok
    /\ response.result.timeEntriesCount = 2
    /\ response.result.overtimeHours > 0
    /\ response.result.regularHours > overtimeThresholdHours * 100
    /\ \E te \in SeqRange(timeEntries) :
           te.totalHours # None /\ te.overtimeHours = None

\* what clockIn at the entry's clock-in time followed by clockOut at its
\* clock-out time stores for the entry's shift
replayed(te) ==
    clockedOut(schedules,
               newTimeEntry(schedules[te.scheduleId], <<>>, te.employeeId,
                            te.scheduleId, te.clockInTime),
               te.clockOutTime)

\* the general statement: the hours of an adjusted entry with both times are
\* those the replay stores
AdjustRecomputesAsClockOut ==
    \A te \in SeqRange(timeEntries) :
        (te.status = "ADJUSTED" /\ te.clockOutTime # None) =>
            /\ te.totalHours = replayed(te).totalHours
            /\ te.overtimeHours = replayed(te).overtimeHours

\* an adjustment of a clocked-out entry that keeps both of its times
unchangedAdjustment(id) ==
    /\ id \in 1..Len(timeEntries)
    /\ id \in 1..Len(timeEntries')
    /\ timeEntries[id].status = "CLOCKED_OUT"
    /\ timeEntries'[id].status = "ADJUSTED"
    /\ timeEntries'[id].clockInTime = timeEntries[id].clockInTime
    /\ timeEntries'[id].clockOutTime = timeEntries[id].clockOutTime

\* C9: adjustTimeEntry recomputes hours exactly as clock-in/clock-out would;
\* in particular adjusting a clocked-out entry with its own unchanged
\* clock-in and clock-out times leaves totalHours and overtimeHours
\* unchanged.
AdjustUnchangedKeepsHours ==
    [][\A id \in TimeEntryIds :
           unchangedAdjustment(id) =>
               /\ timeEntries'[id].totalHours = timeEntries[id].totalHours
               /\ timeEntries'[id].overtimeHours = timeEntries[id].overtimeHours]_vars

\* C10: applyPayrollRounding maps minute m to :00 for 0..7, :15 for 8..22,
\* :30 for 23..37, :45 for 38..52 and :00 of the next hour for 53..59
\* (into the next day from 23:53 on), with the part below the minute zero
\* and the hour otherwise unchanged.
RoundingBreakpoints ==
    response.op = "applyPayrollRounding" =>
        LET t == response.originalTime
            startOfHour == t - (t % HourTicks)
            m == (t - startOfHour) \div MinuteTicks
            expected ==
                IF m \in 0..7 THEN startOfHour
                ELSE IF m \in 8..22 THEN startOfHour + 15 * MinuteTicks
                ELSE IF m \in 23..37 THEN startOfHour + 30 * MinuteTicks
                ELSE IF m \in 38..52 THEN startOfHour + 45 * MinuteTicks
                ELSE startOfHour + HourTicks
        IN  /\ m \in 0..59
            /\ response.roundedTime = expected
            /\ response.roundedTime % MinuteTicks = 0

\* 23:53 and some seconds of day 0 rounded to 00:00 of day 1
RoundingWitness ==
    /\ response.op = "applyPayrollRounding"
    /\ response.originalTime = At(0, 23, 53) + 1
    /\ response.roundedTime = At(1, 0, 0)

\* C11: applyPayrollRounding is idempotent: rounding the rounded value of a
\* timestamp returns that same value.
RoundingIdempotent ==
    response.op = "applyPayrollRounding" =>
        applyPayrollRounding(response.roundedTime) = response.roundedTime

\* 09:08 and some seconds rounded to 09:15
RoundingIdempotentWitness ==
    /\ response.op = "applyPayrollRounding"
    /\ response.originalTime = At(0, 9, 8) + 1
    /\ response.roundedTime = At(0, 9, 15)
    /\ applyPayrollRounding(response.roundedTime) = At(0, 9, 15)

\* C12: applyGracePeriod(actual, scheduled, window) returns the scheduled
\* time with gracePeriodApplied = true exactly when actual is at most
\* window minutes before or after scheduled (the boundary included), and
\* the actual time with gracePeriodApplied = false otherwise.
GraceWindowSymmetric ==
    response.op = "applyGracePeriod" =>
        LET early == response.scheduledTime - response.actualTime
            late == response.actualTime - response.scheduledTime
            window == response.windowMinutes * MinuteTicks
            inside == early <= window /\ late <= window
        IN  IF inside
            THEN /\ response.result.adjustedTime = response.scheduledTime
                 /\ response.result.gracePeriodApplied = TRUE
            ELSE /\ response.result.adjustedTime = response.actualTime
                 /\ response.result.gracePeriodApplied = FALSE

\* a punch exactly five minutes early snapped to the scheduled time by a
\* window of five minutes
GraceWindowWitness ==
    /\ response.op = "applyGracePeriod"
    /\ response.windowMinutes = 5
    /\ response.scheduledTime - response.actualTime = 5 * MinuteTicks
    /\ response.result.gracePeriodApplied
    /\ response.result.adjustedTime = response.scheduledTime

\* one step seen from the snapshots: an existing entry keeps its
\* scheduledStartTime and scheduledEndTime, a new entry copies them from its
\* shift as it is at clock-in, and afterwards every entry's adjusted times
\* are the grace period applied against the entry's own snapshot
snapshotStep ==
    /\ Len(timeEntries') >= Len(timeEntries)
    /\ \A id \in 1..Len(timeEntries') :
           LET te == timeEntries'[id]
           IN  /\ IF id <= Len(timeEntries)
                  THEN /\ te.scheduledStartTime = timeEntries[id].scheduledStartTime
                       /\ te.scheduledEndTime = timeEntries[id].scheduledEndTime
                  ELSE /\ te.scheduledStartTime = schedules[te.scheduleId].startTime
                       /\ te.scheduledEndTime = schedules[te.scheduleId].endTime
               /\ te.adjustedStartTime =
                      applyGracePeriod(te.clockInTime, te.scheduledStartTime).adjustedTime
               /\ te.clockOutTime # None =>
                      te.adjustedEndTime =
                          applyGracePeriod(te.clockOutTime, te.scheduledEndTime).adjustedTime

\* C13: a time entry's scheduledStartTime and scheduledEndTime are copied
\* from the shift at clock-in and no later updateSchedule or deleteSchedule
\* changes them; clockOut and adjustTimeEntry apply the grace period against
\* the snapshot, not against the shift's edited times.
SnapshotImmune == [][snapshotStep]_vars

\* a clock-out just handled, snapped to the snapshot's end, on an entry
\* whose shift has been given another end since clock-in
SnapshotWitness ==
    /\ response.op = "clockOut"
    /\ response.ok
    /\ \E te \in SeqRange(timeEntries) :
           /\ te.status = "CLOCKED_OUT"
           /\ schedules[te.scheduleId].endTime # te.scheduledEndTime
           /\ te.adjustedEndTime = te.scheduledEndTime
           /\ te.adjustedEndTime # te.clockOutTime

-----------------------------------------------------------------------------
(* Properties of the pay period operations *)

\* C14: generatePayPeriodDates(year, month, period) returns start = day 1
\* and end = day 15 for period A, start = day 16 and end = the last calendar
\* day of the month (28, 29, 30 or 31) for period B, and payDate = the
\* calendar day 5 days after the end day: the 20th for A, the 5th of the
\* following month for B (of January of the following year for December).
PayPeriodDatesCalendar ==
    response.op = "generatePayPeriodDates" =>
        LET year == response.year
            month == response.month
            isA == response.period = "A"
            leap == (year % 4 = 0 /\ year % 100 # 0) \/ year % 400 = 0
            lastDay == IF month = 2 THEN (IF leap THEN 29 ELSE 28)
                       ELSE IF month \in {4, 6, 9, 11} THEN 30 ELSE 31
            result == response.result
        IN  /\ calendarOf(result.startDate) =
                   [year |-> year, month |-> month,
                    day |-> IF isA THEN 1 ELSE 16]
            /\ result.startDate % DayTicks = 0
            /\ calendarOf(result.endDate) =
                   [year |-> year, month |-> month,
                    day |-> IF isA THEN 15 ELSE lastDay]
            /\ (result.endDate + 1) % DayTicks = 0
            /\ result.payDate = ((result.endDate \div DayTicks) + 5) * DayTicks
            /\ calendarOf(result.payDate) =
                   IF isA THEN [year |-> year, month |-> month, day |-> 20]
                   ELSE IF month = 12
                   THEN [year |-> year + 1, month |-> 1, day |-> 5]
                   ELSE [year |-> year, month |-> month + 1, day |-> 5]

\* period B of February 2024 ending on the 29th and paid on 5 March, and
\* the result for December rolling into January
PayPeriodDatesWitness ==
    /\ response.op = "generatePayPeriodDates"
    /\ response.year = 2024
    /\ response.month = 2
    /\ response.period = "B"
    /\ calendarOf(response.result.endDate) = [year |-> 2024, month |-> 2, day |-> 29]
    /\ calendarOf(response.result.payDate) = [year |-> 2024, month |-> 3, day |-> 5]

\* the request of process p has found its period stored already
foundExisting(p) ==
    /\ requests[p].pc = "find"
    /\ findPayPeriodByDates(payPeriods,
           generatePayPeriodDates(requests[p].year, requests[p].month,
                                  requests[p].period))

\* one step of the pay_periods table under concurrent creation
periodCreationStep ==
    /\ \A i \in 1..Len(payPeriods'), j \in 1..Len(payPeriods') :
           (/\ i # j
            /\ payPeriods'[i].startDate = payPeriods'[j].startDate
            /\ payPeriods'[i].endDate = payPeriods'[j].endDate)
           => (payPeriods'[i].deleted \/ payPeriods'[j].deleted)
    /\ \A p \in Procs :
           (/\ foundExisting(p)
            /\ requests'[p] # requests[p]
            /\ requests[p].op = "createPayPeriod")
           => /\ requests'[p].pc = "done"
              /\ ~requests'[p].ok
              /\ requests'[p].error = "already exists"
              /\ payPeriods' = payPeriods
    /\ payPeriods' # payPeriods =>
           /\ Len(payPeriods') = Len(payPeriods) + 1
           /\ SubSeq(payPeriods', 1, Len(payPeriods)) = payPeriods
           /\ payPeriods'[Len(payPeriods')].status = "OPEN"

\* C15: under any interleaving of createPayPeriod,
\* createCompletedPeriodPayPeriod and generateUpcomingPeriods no two pay
\* periods have the same (startDate, endDate); a createPayPeriod for a period
\* that exists already fails with the conflict error and leaves the stored
\* periods unchanged; a successful create stores status OPEN.
PayPeriodsUnique == [][periodCreationStep]_vars

\* a createPayPeriod refused for a period another request has stored, while
\* a period created with status OPEN is in the table
PayPeriodsUniqueWitness ==
    /\ \E p \in Procs :
           /\ requests[p].pc = "done"
           /\ requests[p].op = "createPayPeriod"
           /\ requests[p].error = "already exists"
    /\ \E p \in Procs : requests[p].pc = "done" /\ requests[p].ok
    /\ \E r \in SeqRange(payPeriods) : r.status = "OPEN"

-----------------------------------------------------------------------------
(* Properties of the completed-period generation *)

\* the period that may be generated on day of month `day` of month m of year
\* y
completedPeriodOf(y, m, day) ==
    IF day = 16 THEN [year |-> y, month |-> m, period |-> "A"]
    ELSE [year |-> IF m = 1 THEN y - 1 ELSE y,
          month |-> IF m = 1 THEN 12 ELSE m - 1, period |-> "B"]

\* the calendar days (year, month, day of month 1 or 16) the day number n is
generationDaysOf(n) ==
    {c \in [year : CompletedPeriodYears, month : 1..12, day : {1, 16}] :
        n = dayIndex(c.year, c.month, c.day)}

completedPeriodStep ==
    LET generationDays == generationDaysOf(now \div DayTicks)
    IN  /\ (now' = now /\ response'.op = "canGenerateCompletedPeriod") =>
            LET result == response'.result
            IN  /\ result.canGenerate <=> generationDays # {}
                /\ \A c \in generationDays :
                       result.periodInfo =
                           completedPeriodOf(c.year, c.month, c.day)
                /\ generationDays = {} =>
                       /\ result.reason # ""
                       /\ "periodInfo" \notin DOMAIN result
        /\ (now' = now /\ payPeriods' # payPeriods) =>
            \E c \in generationDays :
                LET info == completedPeriodOf(c.year, c.month, c.day)
                    dates == generatePayPeriodDates(info.year, info.month,
                                                    info.period)
                IN  /\ Len(payPeriods') = Len(payPeriods) + 1
                    /\ payPeriods'[Len(payPeriods')].startDate = dates.startDate
                    /\ payPeriods'[Len(payPeriods')].endDate = dates.endDate
        /\ (/\ now' = now
            /\ response' # response
            /\ response'.op = "createCompletedPeriodPayPeriod"
            /\ generationDays = {}) =>
                /\ payPeriods' = payPeriods
                /\ ~response'.ok
                /\ response'.error # ""

-----------------------------------------------------------------------------
(* Properties of the pay period status and of the payslips *)

\* the order of the statuses along the life of a pay period
statusRank(status) ==
    IF status = "OPEN" THEN 1
    ELSE IF status = "PROCESSING" THEN 2
    ELSE IF status = "COMPLETED" THEN 3
    ELSE 4

payPeriodStatusStep ==
    \A id \in 1..Len(payPeriods) :
        (hasPayPeriod(payPeriods, id) /\ hasPayPeriod(payPeriods', id)) =>
            LET before == payPeriods[id].status
                after == payPeriods'[id].status
            IN  /\ statusRank(after) >= statusRank(before)
                /\ ~(before = "OPEN" /\ after = "PAID")
                /\ before = "PAID" => after = "PAID"

\* C17: a pay period's status only moves forward along OPEN, PROCESSING,
\* PAID: no call of updatePayPeriod, generatePayslips, bulkUploadPayslipFiles
\* or markPayPeriodAsPaid moves it backward, takes it from OPEN to PAID
\* without PROCESSING in between, or changes it once it is PAID.
PayPeriodStatusForwardOnly == [][payPeriodStatusStep]_vars

\* the live payslips of a pay period
payslipsOf(slips, payPeriodId) ==
    {r \in livePayslips(slips) : r.payPeriodId = payPeriodId}

\* the operations a PAID pay period blocks
blockedWhenPaid ==
    {"deletePayPeriod", "generatePayslips", "updatePayslip", "deletePayslip",
     "bulkUploadPayslipFiles"}

\* the response reports a rejected request
rejected(resp) ==
    IF resp.op = "bulkUploadPayslipFiles" THEN resp.success = 0 ELSE ~resp.ok

\* a step of one of the blocked operations while the only pay period is PAID
paidPeriodStep ==
    \A id \in 1..Len(payPeriods) :
        (/\ hasPayPeriod(payPeriods, id)
         /\ payPeriods[id].status = "PAID"
         /\ response'.op \in blockedWhenPaid) =>
            /\ payPeriods'[id] = payPeriods[id]
            /\ payslipsOf(payslips', id) = payslipsOf(payslips, id)
            /\ rejected(response')

\* C18: while a pay period is PAID, deletePayPeriod on it and
\* generatePayslips, updatePayslip, deletePayslip and bulkUploadPayslipFiles
\* on its payslips are rejected, and the period and the set and contents of
\* its payslips stay unchanged.
PaidPeriodFrozen == [][paidPeriodStep]_vars

-----------------------------------------------------------------------------
(* Properties of the payroll aggregation *)

\* the time entries of the employee with status CLOCKED_OUT or ADJUSTED whose
\* shift starts inside the pay period, both bounds included
entriesOfPeriod(table, entries, employeeId, payPeriod) ==
    {i \in 1..Len(entries) :
        /\ entries[i].employeeId = employeeId
        /\ entries[i].status \in {"CLOCKED_OUT", "ADJUSTED"}
        /\ table[entries[i].scheduleId].startTime >= payPeriod.startDate
        /\ table[entries[i].scheduleId].startTime <= payPeriod.endDate}

RECURSIVE hoursOfEntries(_, _)
hoursOfEntries(entries, ids) ==
    IF ids = {} THEN 0
    ELSE LET i == CHOOSE j \in ids : TRUE
         IN  numberOrZero(entries[i].totalHours)
                 + hoursOfEntries(entries, ids \ {i})

\* a calculateEmployeePayroll step: its result against the entries it read
payrollSelectionStep ==
    (/\ response'.op = "calculateEmployeePayroll"
     /\ response' # response
     /\ response'.ok
     /\ timeEntries' = timeEntries) =>
        LET result == response'.result
            counted == entriesOfPeriod(schedules, timeEntries, result.employeeId,
                                       payPeriods[result.payPeriodId])
        IN  /\ result.timeEntriesCount = Cardinality(counted)
            /\ counted # {} =>
                   result.totalHours = hoursOfEntries(timeEntries, counted)

\* C20: calculateEmployeePayroll sums the hours of exactly the employee's
\* time entries with status CLOCKED_OUT or ADJUSTED whose shift starts in
\* [periodStart, periodEnd], bounds included: each such entry is counted
\* once, and no CLOCKED_IN entry, no entry of another employee and no entry
\* of a shift starting outside the period is counted.
PayrollCountsCompletedEntriesOfPeriod == [][payrollSelectionStep]_vars

\* the employees of a batch request whose computation throws
failuresOf(request) ==
    {u \in SeqRange(eligibleEmployees(request.employeeIds)) :
        u \in request.failing}

\* the value returned determines the number of failures: no request without
\* that many failures returns the same value
recordsFailures(returned, k) ==
    \A employeeIds \in BatchEmployeeIds, failing \in SUBSET Employees :
        LET request == [payPeriodId |-> returned.payPeriodId,
                        employeeIds |-> employeeIds, failing |-> failing]
            other == calculateBatchPayroll(schedules, timeEntries, payPeriods,
                         returned.payPeriodId, employeeIds, failing)
        IN  (other.ok /\ other.result = returned) =>
                Cardinality(failuresOf(request)) = k

\* a calculateBatchPayroll step over at least one eligible employee of an
\* existing pay period
batchStep ==
    (/\ response'.op = "calculateBatchPayroll"
     /\ response' # response
     /\ hasPayPeriod(payPeriods, response'.request.payPeriodId)
     /\ eligibleEmployees(response'.request.employeeIds) # <<>>) =>
        LET request == response'.request
            eligible == SeqRange(eligibleEmployees(request.employeeIds))
            failures == failuresOf(request)
        IN  /\ response'.ok
            /\ LET returned == response'.result
                   succeeded == {returned.employees[i].employeeId :
                                    i \in 1..Len(returned.employees)}
               IN  /\ Len(returned.employees)
                          = Cardinality(eligible) - Cardinality(failures)
                   /\ succeeded = eligible \ failures
                   /\ returned.summary.totalEmployees = Len(returned.employees)
                   /\ returned.summary.totalRegularHours
                          = sumOf(returned.employees, "regularHours")
                   /\ returned.summary.totalGrossPay
                          = sumOf(returned.employees, "grossPay")
                   /\ recordsFailures(returned, Cardinality(failures))

\* C19: calculateBatchPayroll over N eligible employees of which k
\* computations throw (k < N or k = N) returns the N - k successful results,
\* records the k failures in the value it returns, throws nothing, and its
\* summary totals cover exactly the N - k successes.
BatchRecordsFailures == [][batchStep]_vars

-----------------------------------------------------------------------------
(* Properties of the pay amounts *)

\* C21 as stated: in every result of calculateEmployeePayroll the returned
\* two-decimal values satisfy regularPay = regularHours x rate, overtimePay
\* = overtimeHours x rate x 1.5, grossPay = regularPay + overtimePay and
\* netPay = grossPay - deductions.
PayAmountsExact ==
    response.op = "payAmounts" =>
        /\ 100 * response.regularPay
               = response.totalRegularHours * response.payRate
        /\ 1000 * response.overtimePay
               = 15 * response.totalOvertimeHours * response.payRate
        /\ response.grossPay = response.regularPay + response.overtimePay
        /\ response.netPay = response.grossPay - response.deductions

\* C21 as amended: every returned amount is its exact value rounded to the
\* cent (within half a cent of regularHours x rate, of overtimeHours x rate
\* x 1.5 and of their sum), so that grossPay is within one cent of
\* regularPay + overtimePay and netPay within one cent of grossPay -
\* deductions; 80 regular hours, 5 overtime hours and rate 20 give 1600, 150
\* and 1750.
PayAmountsRounded ==
    response.op = "payAmounts" =>
        LET regular == 10 * response.totalRegularHours * response.payRate
            overtime == 15 * response.totalOvertimeHours * response.payRate
        IN  /\ Abs(1000 * response.regularPay - regular) <= 500
            /\ Abs(1000 * response.overtimePay - overtime) <= 500
            /\ Abs(1000 * response.grossPay - (regular + overtime)) <= 500
            /\ Abs(response.grossPay
                       - (response.regularPay + response.overtimePay)) <= 1
            /\ Abs(response.netPay
                       - (response.grossPay - response.deductions)) <= 1
            /\ (/\ response.totalRegularHours = 8000
                /\ response.totalOvertimeHours = 500
                /\ response.payRate = 2000) =>
                   /\ response.regularPay = 160000
                   /\ response.overtimePay = 15000
                   /\ response.grossPay = 175000

\* amounts whose rounded parts do not add up to the rounded sum
PayAmountsRoundedWitness ==
    /\ response.op = "payAmounts"
    /\ response.totalOvertimeHours > 0
    /\ response.grossPay # response.regularPay + response.overtimePay

-----------------------------------------------------------------------------
(* Properties of the salaried default hours *)

\* the employee's entries with a clock-out whose shift starts in the period
completedEntries(table, entries, employeeId, payPeriod) ==
    {i \in 1..Len(entries) :
        /\ entries[i].employeeId = employeeId
        /\ entries[i].clockOutTime # None
        /\ table[entries[i].scheduleId].startTime >= payPeriod.startDate
        /\ table[entries[i].scheduleId].startTime <= payPeriod.endDate}

\* the fields of a result that are not its ids, hours, amounts and count:
\* the place of a flag
flagsOf(result) ==
    DOMAIN result \ {"employeeId", "payPeriodId", "regularHours",
                     "overtimeHours", "totalHours", "regularPay",
                     "overtimePay", "grossPay", "deductions", "netPay",
                     "timeEntriesCount", "timeEntriesDetails"}

\* a calculateEmployeePayroll step: the hours are the default exactly for a
\* SALARY employee without completed entries
fallbackHoursStep ==
    (/\ response'.op = "calculateEmployeePayroll"
     /\ response' # response
     /\ response'.ok
     /\ timeEntries' = timeEntries) =>
        LET result == response'.result
            completed == completedEntries(schedules, timeEntries,
                             result.employeeId, payPeriods[result.payPeriodId])
            substituted == /\ payTypeOf(result.employeeId) = "SALARY"
                           /\ completed = {}
        IN  /\ substituted => result.totalHours = salaryDefaultHours * 100
            /\ ~substituted =>
                   result.totalHours = hoursOfEntries(timeEntries, completed)

fallbackFlagStep ==
    (/\ response'.op = "calculateEmployeePayroll"
     /\ response' # response
     /\ response'.ok
     /\ timeEntries' = timeEntries) =>
        LET result == response'.result
            completed == completedEntries(schedules, timeEntries,
                             result.employeeId, payPeriods[result.payPeriodId])
        IN  (payTypeOf(result.employeeId) = "SALARY" /\ completed = {}) =>
                flagsOf(result) # {}

\* the substitution rule alone, which the code keeps
FallbackOnlyForSalaried == [][fallbackHoursStep]_vars

\* C22: calculateEmployeePayroll substitutes the default hours only for a
\* SALARY employee with no completed time entry in the period (an HOURLY
\* employee without entries gets zero hours), and a result with substituted
\* hours carries a flag that marks them as a fallback.
FallbackHoursFlagged == [][fallbackHoursStep /\ fallbackFlagStep]_vars

-----------------------------------------------------------------------------
(* Properties of the preconditions of clockIn and clockOut *)

\* the preconditions of a clockIn by employeeId on scheduleId in the order
\* stated, each with whether it holds now
clockInPreconditions(employeeId, scheduleId) ==
    LET exists == scheduleId \in 1..Len(schedules)
        shift == schedules[scheduleId]
    IN  <<[kind |-> "SCHEDULE_NOT_FOUND", holds |-> exists],
          [kind |-> "Schedule is inactive", holds |-> exists /\ shift.isActive],
          [kind |-> "Employee ID does not match schedule",
           holds |-> exists /\ shift.employeeId = employeeId],
          [kind |-> "TOO_EARLY",
           holds |-> exists /\ now + clockInWindowMinutes * MinuteTicks
                                   >= shift.startTime],
          [kind |-> "ALREADY_CLOCKED_IN",
           holds |-> ~\E i \in 1..Len(timeEntries) :
                         /\ timeEntries[i].employeeId = employeeId
                         /\ timeEntries[i].scheduleId = scheduleId
                         /\ timeEntries[i].clockOutTime = None]>>

failingOf(preconditions) == {i \in 1..Len(preconditions) : ~preconditions[i].holds}

firstOf(indices) == CHOOSE i \in indices : \A j \in indices : i <= j

\* a clockIn step: the first failing precondition names the failure and no
\* entry is created; with none failing an entry is created
clockInOrderStep ==
    \A employeeId \in Employees, scheduleId \in 1..(Len(schedules) + 1) :
        ClockIn(employeeId, scheduleId) =>
            LET preconditions == clockInPreconditions(employeeId, scheduleId)
                failing == failingOf(preconditions)
            IN  IF failing = {}
                THEN /\ response'.ok
                     /\ Len(timeEntries') = Len(timeEntries) + 1
                ELSE /\ ~response'.ok
                     /\ response'.error = preconditions[firstOf(failing)].kind
                     /\ timeEntries' = timeEntries

\* C23: clockIn checks its preconditions in the order shift exists, shift
\* isActive, shift.employeeId equals employeeId, now >= scheduledStart - 5
\* minutes, no open entry for (employeeId, shiftId); the first that fails
\* decides the failure kind, a clock-in exactly 5 minutes before the start
\* passes the time check, and a failed clockIn creates no time entry.
ClockInPreconditionOrder == [][clockInOrderStep]_vars

\* a clockIn was refused for the deactivated shift while an entry opened
\* exactly clockInWindowMinutes before the start is still open on it
ClockInPreconditionOrderWitness ==
    /\ response = [op |-> "clockIn", ok |-> FALSE, error |-> "Schedule is inactive"]
    /\ ~schedules[1].isActive
    /\ \E te \in SeqRange(timeEntries) :
           /\ te.clockOutTime = None
           /\ te.scheduleId = 1
           /\ te.clockInTime + clockInWindowMinutes * MinuteTicks
                  = schedules[1].startTime

\* the preconditions of a clockOut of timeEntryId by currentUserId in the
\* order stated, each with whether it holds now
clockOutPreconditions(timeEntryId, currentUserId) ==
    LET exists == timeEntryId \in 1..Len(timeEntries)
        entry == timeEntries[timeEntryId]
    IN  <<[kind |-> "TIME_ENTRY_NOT_FOUND", holds |-> exists],
          [kind |-> "Already clocked out for this shift",
           holds |-> exists /\ entry.clockOutTime = None],
          [kind |-> "You can only clock out your own time entries",
           holds |-> exists /\ (roleOf(currentUserId) = "EMPLOYEE"
                                    => entry.employeeId = currentUserId)]>>

\* a clockOut step under an order of the preconditions: the first failing
\* one names the failure and the entries stay; with none failing the entry
\* alone is written
clockOutStep(order) ==
    \A timeEntryId \in TimeEntryIds, currentUserId \in UserIds :
        ClockOut(timeEntryId, currentUserId) =>
            LET stated == clockOutPreconditions(timeEntryId, currentUserId)
                preconditions == [i \in 1..Len(order) |-> stated[order[i]]]
                failing == failingOf(preconditions)
            IN  IF failing = {}
                THEN /\ response'.ok
                     /\ timeEntries'[timeEntryId].clockOutTime = now
                     /\ \A i \in 1..Len(timeEntries) :
                            i # timeEntryId => timeEntries'[i] = timeEntries[i]
                ELSE /\ ~response'.ok
                     /\ response'.error = preconditions[firstOf(failing)].kind
                     /\ timeEntries' = timeEntries

\* the order of the code: the permission before the state of the entry
ClockOutPermissionFirst == [][clockOutStep(<<1, 3, 2>>)]_vars

\* C24: clockOut fails with not-found when the entry does not exist, with a
\* state error when it already has a clockOutTime, with a permission error
\* when an EMPLOYEE caller is not the entry's employee, the checks deciding
\* the failure kind in that order; MANAGER and ADMIN callers clock out any
\* open entry, and every failed clockOut leaves the entry unchanged.
ClockOutPreconditionOrder == [][clockOutStep(<<1, 2, 3>>)]_vars

-----------------------------------------------------------------------------
(* Properties of the status update of generatePayslips *)

statusOf(periods) == [id \in 1..Len(periods) |-> periods[id].status]

\* a step of generatePayslips, calculateBatchPayroll or
\* validatePayrollCalculation: only the last step of a generatePayslips
\* call that went through its whole batch writes the status, to PROCESSING
\* of its pay period
statusUpdateStep ==
    /\ \A p \in Procs :
           requests'[p] # requests[p] =>
               IF requests[p].pc = "updateStatus"
               THEN /\ requests[p].remaining = <<>>
                    /\ requests'[p].pc = "done"
                    /\ requests'[p].ok
                    /\ statusOf(payPeriods') =
                           [statusOf(payPeriods) EXCEPT
                                ![requests[p].payPeriodId] = "PROCESSING"]
               ELSE /\ statusOf(payPeriods') = statusOf(payPeriods)
                    /\ requests'[p].pc = "done" => ~requests'[p].ok
    /\ (/\ response' # response
        /\ response'.op \in {"calculateBatchPayroll", "validatePayrollCalculation"})
           => statusOf(payPeriods') = statusOf(payPeriods)

\* C25: generatePayslips writes the pay period status (to PROCESSING)
\* exactly once per call and only after every employee of the batch has been
\* processed; a call that fails before the batch is finished (period not
\* found, period PAID, payslips already exist without recalculate, no
\* eligible employees) leaves the status unchanged, and
\* calculateBatchPayroll and validatePayrollCalculation never change it.
StatusUpdatedOnceAfterBatch == [][statusUpdateStep]_vars

\* a call over two employees has returned and set the status, another has
\* failed on the existing payslips
StatusUpdatedOnceAfterBatchWitness ==
    \E p \in Procs, q \in Procs :
        /\ requests[p].pc = "done"
        /\ requests[p].ok
        /\ Cardinality({r \in livePayslips(payslips) :
                           r.payPeriodId = requests[p].payPeriodId}) = 2
        /\ payPeriods[requests[p].payPeriodId].status = "PROCESSING"
        /\ requests[q].pc = "done"
        /\ ~requests[q].ok
        /\ requests[q].error = "Payslips already exist for this period"

-----------------------------------------------------------------------------
(* Properties of the reachable statuses of a pay period *)

\* C26: no sequence of createPayPeriod, updatePayPeriod, generatePayslips
\* and markPayPeriodAsPaid calls ever puts a pay period in status COMPLETED.
NeverCompleted ==
    \A id \in 1..Len(payPeriods) : payPeriods[id].status # "COMPLETED"

\* C29: every pay period whose status is PAID has at least one payslip,
\* after any sequence of generatePayslips, bulkUploadPayslipFiles,
\* deletePayslip, markPayPeriodAsPaid and updatePayPeriod calls.
PaidPeriodHasPayslip ==
    \A id \in 1..Len(payPeriods) :
        (hasPayPeriod(payPeriods, id) /\ payPeriods[id].status = "PAID")
            => payslipCount(payslips, id) >= 1

\* COMPLETED, and PAID without a payslip, come about by updatePayPeriod alone
OnlyUpdatePayPeriodBreaks ==
    [][/\ (NeverCompleted /\ ~NeverCompleted') => response'.op = "updatePayPeriod"
       /\ (PaidPeriodHasPayslip /\ ~PaidPeriodHasPayslip')
              => response'.op = "updatePayPeriod"]_vars

-----------------------------------------------------------------------------
(* Properties of the time entries of one shift *)

\* C27: for each (employee, shift) pair at most one time entry ever exists:
\* once the shift's entry has been clocked out a further clockIn on the
\* same shift is rejected, so calculateEmployeePayroll never counts one
\* shift's hours twice (it counts no more entries than the employee has
\* shifts with an entry).
AtMostOneEntryPerShift ==
    /\ \A i \in 1..Len(timeEntries), j \in 1..Len(timeEntries) :
           i # j => ~(/\ timeEntries[i].employeeId = timeEntries[j].employeeId
                      /\ timeEntries[i].scheduleId = timeEntries[j].scheduleId)
    /\ (response.op = "calculateEmployeePayroll" /\ response.ok) =>
           response.result.timeEntriesCount
               <= Cardinality({timeEntries[i].scheduleId :
                      i \in {j \in 1..Len(timeEntries) :
                          timeEntries[j].employeeId = response.result.employeeId}})

\* the payroll counting alone
PayrollCountsEachShiftOnce ==
    (response.op = "calculateEmployeePayroll" /\ response.ok) =>
        response.result.timeEntriesCount
            <= Cardinality({timeEntries[i].scheduleId :
                   i \in {j \in 1..Len(timeEntries) :
                       timeEntries[j].employeeId = response.result.employeeId}})

-----------------------------------------------------------------------------
(* Properties of concurrent clockOut requests *)

\* the requests that have returned successfully for entry id
clockedOutBy(id) ==
    {p \in Procs : /\ requests[p].pc = "done"
                    /\ requests[p].ok
                    /\ requests[p].timeEntryId = id}

\* a clock-out once written stays as written
writtenOnceStep ==
    \A id \in 1..Len(timeEntries) :
        timeEntries[id].clockOutTime # None =>
            /\ timeEntries'[id].clockOutTime = timeEntries[id].clockOutTime
            /\ timeEntries'[id].adjustedEndTime = timeEntries[id].adjustedEndTime
            /\ timeEntries'[id].totalHours = timeEntries[id].totalHours

\* C28: when two clockOut requests for the same open time entry run
\* concurrently (each reads the entry, then writes it), at most one of them
\* succeeds: the entry's clockOutTime, adjustedEndTime and totalHours are
\* written once and the other request fails as already clocked out.
AtMostOneClockOutSucceeds ==
    [][/\ \A id \in 1..Len(timeEntries) : Cardinality(clockedOutBy(id)') <= 1
       /\ writtenOnceStep]_vars

-----------------------------------------------------------------------------
(* Properties of the gracePeriodApplied flag *)

\* the stored punch lies within the grace window of the scheduled time
withinGrace(actualTime, scheduledTime) ==
    /\ actualTime # None
    /\ scheduledTime # None
    /\ applyGracePeriod(actualTime, scheduledTime).gracePeriodApplied

\* C30: after any sequence of clockIn, clockOut and adjustTimeEntry on an
\* entry, gracePeriodApplied is true exactly when the stored clock-in time
\* is within the grace window of scheduledStartTime or the stored clock-out
\* time is within the grace window of scheduledEndTime.
GraceFlagMatchesStoredTimes ==
    \A te \in SeqRange(timeEntries) :
        te.gracePeriodApplied <=>
            \/ withinGrace(te.clockInTime, te.scheduledStartTime)
            \/ withinGrace(te.clockOutTime, te.scheduledEndTime)

\* the same for the entries no adjustment has touched
GraceFlagMatchesUnadjusted ==
    \A te \in SeqRange(timeEntries) :
        te.status # "ADJUSTED" =>
            (te.gracePeriodApplied <=>
                \/ withinGrace(te.clockInTime, te.scheduledStartTime)
                \/ withinGrace(te.clockOutTime, te.scheduledEndTime))

====
